---- MODULE Spec2Model ----
(***************************************************************************)
(* FetchORM: a fluent builder of FetchXML documents.                       *)
(*                                                                         *)
(* JavaScript strings are TLA+ strings (TLC treats a string as the         *)
(* sequence of its one-character strings: Len, \o and SubSeq apply).       *)
(* A value that may be undefined in the source (an optional parameter, an  *)
(* optional field) is a sequence of length 0 (undefined) or 1 (the value). *)
(* A JavaScript number is a record [nan, n]: NaN or the integer n.         *)
(***************************************************************************)
EXTENDS Integers, Sequences, FiniteSets, TLC

(***************************************************************************)
(* JavaScript values                                                       *)
(***************************************************************************)
undefined == <<>>

Some(v) == <<v>>

IsDefined(o) == o # <<>>

Num(i) == [nan |-> FALSE, n |-> i]

NaN == [nan |-> TRUE, n |-> 0]

\* a < b on numbers: every comparison with NaN is false
NumLt(a, b) == ~a.nan /\ ~b.nan /\ a.n < b.n

\* a > b on numbers
NumGt(a, b) == ~a.nan /\ ~b.nan /\ a.n > b.n

\* the truthiness of a number: 0 and NaN are falsy
NumTruthy(a) == ~a.nan /\ a.n # 0

\* the truthiness of a string: the empty string is falsy
StrTruthy(s) == s # ""

Digits == <<"0", "1", "2", "3", "4", "5", "6", "7", "8", "9">>

RECURSIVE NatToString(_)
NatToString(i) ==
    IF i < 10 THEN Digits[i + 1]
    ELSE NatToString(i \div 10) \o Digits[(i % 10) + 1]

\* Number.prototype.toString and template interpolation of a number
NumToString(a) ==
    IF a.nan THEN "NaN"
    ELSE IF a.n < 0 THEN "-" \o NatToString(0 - a.n)
    ELSE NatToString(a.n)

\* the i-th character of s
CharAt(s, i) == SubSeq(s, i, i)

\* String.prototype.replace(/c/g, rep) for a one-character pattern c
RECURSIVE ReplaceAll(_, _, _)
ReplaceAll(s, c, rep) ==
    IF s = "" THEN ""
    ELSE (IF CharAt(s, 1) = c THEN rep ELSE CharAt(s, 1))
         \o ReplaceAll(SubSeq(s, 2, Len(s)), c, rep)

WhiteSpace == {" ", "\t", "\n", "\r"}

\* String.prototype.trim
RECURSIVE trim(_)
trim(s) ==
    IF s = "" THEN ""
    ELSE IF CharAt(s, 1) \in WhiteSpace THEN trim(SubSeq(s, 2, Len(s)))
    ELSE IF CharAt(s, Len(s)) \in WhiteSpace THEN trim(SubSeq(s, 1, Len(s) - 1))
    ELSE s

(***************************************************************************)
(* Condition values (value?: any): undefined, null, a number, a boolean or *)
(* a string                                                                *)
(***************************************************************************)
VUndefined == [k |-> "undefined", n |-> Num(0), b |-> FALSE, s |-> ""]

VNull == [k |-> "null", n |-> Num(0), b |-> FALSE, s |-> ""]

VNum(a) == [k |-> "number", n |-> a, b |-> FALSE, s |-> ""]

VBool(x) == [k |-> "boolean", n |-> Num(0), b |-> x, s |-> ""]

VStr(x) == [k |-> "string", n |-> Num(0), b |-> FALSE, s |-> x]

\* value.toString()
ValueToString(v) ==
    CASE v.k = "number" -> NumToString(v.n)
      [] v.k = "boolean" -> (IF v.b THEN "true" ELSE "false")
      [] v.k = "string" -> v.s

(***************************************************************************)
(* Errors                                                                  *)
(***************************************************************************)
NoError == [thrown |-> FALSE, name |-> "", code |-> "", field |-> ""]

ValidationError(field) ==
    [thrown |-> TRUE, name |-> "Validation error", code |-> "VALIDATION_ERROR",
     field |-> field]

(***************************************************************************)
(* Validator                                                               *)
(***************************************************************************)
MAX_PAGE_SIZE == 5000

MAX_TOP_SIZE == 5000

MIN_PAGE_SIZE == 1

MIN_TOP_SIZE == 1

\* validOperators as it would be with its last entry left out
validOperators_short ==
    <<"eq", "ne", "gt", "ge", "lt", "le", "like", "not-like",
      "in", "not-in", "null", "not-null", "on", "on-or-before",
      "on-or-after", "yesterday", "today", "tomorrow",
      "last-seven-days", "next-seven-days", "last-week",
      "this-week", "next-week", "last-month", "this-month",
      "next-month", "last-year", "this-year">>

validOperators ==
    <<"eq", "ne", "gt", "ge", "lt", "le", "like", "not-like",
      "in", "not-in", "null", "not-null", "on", "on-or-before",
      "on-or-after", "yesterday", "today", "tomorrow",
      "last-seven-days", "next-seven-days", "last-week",
      "this-week", "next-week", "last-month", "this-month",
      "next-month", "last-year", "this-year", "next-year">>

validOrders == <<"asc", "desc">>

validAggregates == <<"count", "countcolumn", "sum", "avg", "min", "max">>

\* Array.prototype.includes
Includes(arr, x) == \E i \in 1..Len(arr) : arr[i] = x

validateFilterOperator(operator) ==
    IF ~Includes(validOperators, operator) THEN ValidationError("operator")
    ELSE NoError

validateOrderType(order) ==
    IF ~Includes(validOrders, order) THEN ValidationError("order")
    ELSE NoError

validateAggregateType(aggregate) ==
    IF ~Includes(validAggregates, aggregate) THEN ValidationError("aggregate")
    ELSE NoError

\* validateAttributeName as it would be without the test of the trimmed name
validateAttributeName_emptyOnly(attribute) ==
    IF ~StrTruthy(attribute) THEN ValidationError("attribute")
    ELSE NoError

validateAttributeName(attribute) ==
    IF ~StrTruthy(attribute) \/ trim(attribute) = "" THEN ValidationError("attribute")
    ELSE NoError

validateEntityName(entityName) ==
    IF ~StrTruthy(entityName) \/ trim(entityName) = "" THEN ValidationError("entityName")
    ELSE NoError

\* validatePagination as it would be with the page size tested first
validatePagination_countFirst(pageNumber, pageSize) ==
    IF NumLt(pageSize, Num(MIN_PAGE_SIZE)) \/ NumGt(pageSize, Num(MAX_PAGE_SIZE))
    THEN ValidationError("count")
    ELSE IF NumLt(pageNumber, Num(MIN_PAGE_SIZE)) THEN ValidationError("page")
    ELSE NoError

validatePagination(pageNumber, pageSize) ==
    IF NumLt(pageNumber, Num(MIN_PAGE_SIZE)) THEN ValidationError("page")
    ELSE IF NumLt(pageSize, Num(MIN_PAGE_SIZE)) \/ NumGt(pageSize, Num(MAX_PAGE_SIZE))
         THEN ValidationError("count")
    ELSE NoError

validateTop(n) ==
    IF NumLt(n, Num(MIN_TOP_SIZE)) \/ NumGt(n, Num(MAX_TOP_SIZE))
    THEN ValidationError("top")
    ELSE NoError

(***************************************************************************)
(* XML renderer (FetchXMLBuilder)                                          *)
(***************************************************************************)
\* attr.alias: undefined when the attribute has no such key
AttrAlias(attr) == IF "alias" \in DOMAIN attr THEN attr.alias ELSE undefined

\* the optional string o is truthy
OptStrTruthy(o) == IsDefined(o) /\ StrTruthy(o[1])

\* escapeXml as it would be with the ampersand replaced last
escapeXml_ampersandLast(value) ==
    ReplaceAll(ReplaceAll(ReplaceAll(ReplaceAll(ReplaceAll(
        value, "<", "&lt;"), ">", "&gt;"), "\"", "&quot;"), "'", "&#39;"), "&", "&amp;")

escapeXml(value) ==
    ReplaceAll(ReplaceAll(ReplaceAll(ReplaceAll(ReplaceAll(
        value, "&", "&amp;"), "<", "&lt;"), ">", "&gt;"), "\"", "&quot;"), "'", "&#39;")

buildAttribute(attr) ==
    "<attribute"
    \o " name=\"" \o escapeXml(attr.name) \o "\""
    \o (IF OptStrTruthy(AttrAlias(attr))
        THEN " alias=\"" \o escapeXml(AttrAlias(attr)[1]) \o "\"" ELSE "")
    \o (IF "aggregate" \in DOMAIN attr
        THEN " aggregate=\"" \o attr.aggregate \o "\"" ELSE "")
    \o "/>"

\* buildAttributes as it would be with a name rendered once only
RECURSIVE buildAttributeList_dedup(_)
buildAttributeList_dedup(attributes) ==
    IF attributes = <<>> THEN ""
    ELSE buildAttribute(Head(attributes))
         \o buildAttributeList_dedup(
                SelectSeq(Tail(attributes), LAMBDA a : a.name # Head(attributes).name))

RECURSIVE buildAttributeList(_)
buildAttributeList(attributes) ==
    IF attributes = <<>> THEN ""
    ELSE buildAttribute(Head(attributes)) \o buildAttributeList(Tail(attributes))

buildAttributes(q) == buildAttributeList(q.attributes)

\* the truthiness of a condition value
ValueTruthy(v) ==
    CASE v.k = "number" -> NumTruthy(v.n)
      [] v.k = "boolean" -> v.b
      [] v.k = "string" -> StrTruthy(v.s)
      [] OTHER -> FALSE

\* buildCondition as it would be with the value tested for truthiness
buildCondition_truthy(condition) ==
    "<condition"
    \o " attribute=\"" \o escapeXml(condition.attribute) \o "\""
    \o " operator=\"" \o condition.operator \o "\""
    \o (IF ValueTruthy(condition.value)
        THEN " value=\"" \o escapeXml(ValueToString(condition.value)) \o "\"" ELSE "")
    \o "/>"

buildCondition(condition) ==
    "<condition"
    \o " attribute=\"" \o escapeXml(condition.attribute) \o "\""
    \o " operator=\"" \o condition.operator \o "\""
    \o (IF condition.value.k # "undefined" /\ condition.value.k # "null"
        THEN " value=\"" \o escapeXml(ValueToString(condition.value)) \o "\"" ELSE "")
    \o "/>"

\* buildFilter's loop as it would be if the entries of a nested group were
\* written without a <filter> element of their own
RECURSIVE buildFilterEntries_flat(_)
buildFilterEntries_flat(conditions) ==
    IF conditions = <<>> THEN ""
    ELSE (IF "type" \in DOMAIN Head(conditions)
          THEN buildFilterEntries_flat(Head(conditions).conditions)
          ELSE buildCondition(Head(conditions)))
         \o buildFilterEntries_flat(Tail(conditions))

RECURSIVE buildFilter(_)
RECURSIVE buildFilterEntries(_)
buildFilterEntries(conditions) ==
    IF conditions = <<>> THEN ""
    ELSE (IF "type" \in DOMAIN Head(conditions)
          THEN buildFilter(Head(conditions))
          ELSE buildCondition(Head(conditions)))
         \o buildFilterEntries(Tail(conditions))

buildFilter(filter) ==
    "<filter type=\"" \o filter.type \o "\">"
    \o buildFilterEntries(filter.conditions)
    \o "</filter>"

buildOrder(order) ==
    "<order attribute=\"" \o escapeXml(order.attribute) \o "\" descending=\""
    \o (IF order.order = "desc" THEN "true" ELSE "false") \o "\"/>"

RECURSIVE buildOrderList(_)
buildOrderList(orders) ==
    IF orders = <<>> THEN ""
    ELSE buildOrder(Head(orders)) \o buildOrderList(Tail(orders))

buildOrders(q) == buildOrderList(q.orders[1])

RECURSIVE buildLinkEntity(_)
RECURSIVE buildLinkList(_)
buildLinkList(links) ==
    IF links = <<>> THEN ""
    ELSE buildLinkEntity(Head(links)) \o buildLinkList(Tail(links))

\* buildLinkEntity as it would be with the filter written before the
\* attributes
buildLinkEntity_filterFirst(link) ==
    "<link-entity"
    \o " name=\"" \o escapeXml(link.name) \o "\""
    \o " from=\"" \o escapeXml(link.from) \o "\""
    \o " to=\"" \o escapeXml(link.to) \o "\""
    \o (IF OptStrTruthy(link.alias)
        THEN " alias=\"" \o escapeXml(link.alias[1]) \o "\"" ELSE "")
    \o (IF OptStrTruthy(link.linkType)
        THEN " link-type=\"" \o link.linkType[1] \o "\"" ELSE "")
    \o ">"
    \o (IF IsDefined(link.filters) THEN buildFilter(link.filters[1]) ELSE "")
    \o buildAttributeList(link.attributes)
    \o (IF IsDefined(link.links) THEN buildLinkList(link.links[1]) ELSE "")
    \o "</link-entity>"

buildLinkEntity(link) ==
    "<link-entity"
    \o " name=\"" \o escapeXml(link.name) \o "\""
    \o " from=\"" \o escapeXml(link.from) \o "\""
    \o " to=\"" \o escapeXml(link.to) \o "\""
    \o (IF OptStrTruthy(link.alias)
        THEN " alias=\"" \o escapeXml(link.alias[1]) \o "\"" ELSE "")
    \o (IF OptStrTruthy(link.linkType)
        THEN " link-type=\"" \o link.linkType[1] \o "\"" ELSE "")
    \o ">"
    \o buildAttributeList(link.attributes)
    \o (IF IsDefined(link.filters) THEN buildFilter(link.filters[1]) ELSE "")
    \o (IF IsDefined(link.links) THEN buildLinkList(link.links[1]) ELSE "")
    \o "</link-entity>"

buildLinks(q) == buildLinkList(q.links[1])

\* FetchXMLBuilder.build for a model whose rendering raises nothing
\* build as it would be with an <entity> that has no children self-closed
build_selfClosing(q) ==
    LET children ==
            buildAttributes(q)
            \o (IF IsDefined(q.filters) THEN buildFilter(q.filters[1]) ELSE "")
            \o (IF IsDefined(q.orders) THEN buildOrders(q) ELSE "")
            \o (IF IsDefined(q.links) THEN buildLinks(q) ELSE "")
    IN  "<fetch"
        \o (IF IsDefined(q.distinct) /\ q.distinct[1] THEN " distinct=\"true\"" ELSE "")
        \o (IF IsDefined(q.top) /\ NumTruthy(q.top[1])
            THEN " top=\"" \o NumToString(q.top[1]) \o "\"" ELSE "")
        \o (IF IsDefined(q.page) /\ NumTruthy(q.page[1])
            THEN " page=\"" \o NumToString(q.page[1]) \o "\"" ELSE "")
        \o (IF IsDefined(q.count) /\ NumTruthy(q.count[1])
            THEN " count=\"" \o NumToString(q.count[1]) \o "\"" ELSE "")
        \o ">"
        \o (IF children = "" THEN "<entity name=\"" \o q.entity \o "\"/>"
            ELSE "<entity name=\"" \o q.entity \o "\">" \o children \o "</entity>")
        \o "</fetch>"

\* build as it would be with the fetch options written as page, count,
\* distinct, top
build_pageFirst(q) ==
    "<fetch"
    \o (IF IsDefined(q.page) /\ NumTruthy(q.page[1])
        THEN " page=\"" \o NumToString(q.page[1]) \o "\"" ELSE "")
    \o (IF IsDefined(q.count) /\ NumTruthy(q.count[1])
        THEN " count=\"" \o NumToString(q.count[1]) \o "\"" ELSE "")
    \o (IF IsDefined(q.distinct) /\ q.distinct[1] THEN " distinct=\"true\"" ELSE "")
    \o (IF IsDefined(q.top) /\ NumTruthy(q.top[1])
        THEN " top=\"" \o NumToString(q.top[1]) \o "\"" ELSE "")
    \o ">"
    \o "<entity name=\"" \o q.entity \o "\">"
    \o buildAttributes(q)
    \o (IF IsDefined(q.filters) THEN buildFilter(q.filters[1]) ELSE "")
    \o (IF IsDefined(q.orders) THEN buildOrders(q) ELSE "")
    \o (IF IsDefined(q.links) THEN buildLinks(q) ELSE "")
    \o "</entity>"
    \o "</fetch>"

build(q) ==
    "<fetch"
    \o (IF IsDefined(q.distinct) /\ q.distinct[1] THEN " distinct=\"true\"" ELSE "")
    \o (IF IsDefined(q.top) /\ NumTruthy(q.top[1])
        THEN " top=\"" \o NumToString(q.top[1]) \o "\"" ELSE "")
    \o (IF IsDefined(q.page) /\ NumTruthy(q.page[1])
        THEN " page=\"" \o NumToString(q.page[1]) \o "\"" ELSE "")
    \o (IF IsDefined(q.count) /\ NumTruthy(q.count[1])
        THEN " count=\"" \o NumToString(q.count[1]) \o "\"" ELSE "")
    \o ">"
    \o "<entity name=\"" \o q.entity \o "\">"
    \o buildAttributes(q)
    \o (IF IsDefined(q.filters) THEN buildFilter(q.filters[1]) ELSE "")
    \o (IF IsDefined(q.orders) THEN buildOrders(q) ELSE "")
    \o (IF IsDefined(q.links) THEN buildLinks(q) ELSE "")
    \o "</entity>"
    \o "</fetch>"

(***************************************************************************)
(* Rendering that raises.  A condition value of type any can be an object  *)
(* whose toString() raises; what it raises is any JavaScript value: an     *)
(* Error with a message, a string, or null.                                *)
(***************************************************************************)
JsError(name, message) == [type |-> "Error", name |-> name, message |-> message]

JsString(s) == [type |-> "string", name |-> "", message |-> s]

JsNull == [type |-> "null", name |-> "", message |-> ""]

\* an object whose toString() raises thrown
VObject(thrown) ==
    [k |-> "object", n |-> Num(0), b |-> FALSE, s |-> "", toString |-> thrown]

QueryBuildError(message) ==
    [thrown |-> TRUE, name |-> "QueryBuild error", code |-> "QUERY_BUILD_ERROR",
     field |-> "", message |-> message]

\* the TypeError the runtime raises for a property read on null
TypeError(message) ==
    [thrown |-> TRUE, name |-> "TypeError", code |-> "", field |-> "",
     message |-> message]

\* what the first condition.value.toString() that raises, raises, when the
\* entries are rendered in order; undefined if none raises
RECURSIVE ThrownByEntries(_)
ThrownByEntries(conditions) ==
    IF conditions = <<>> THEN undefined
    ELSE IF "type" \in DOMAIN Head(conditions)
    THEN (IF IsDefined(ThrownByEntries(Head(conditions).conditions))
          THEN ThrownByEntries(Head(conditions).conditions)
          ELSE ThrownByEntries(Tail(conditions)))
    ELSE IF Head(conditions).value.k = "object"
    THEN Some(Head(conditions).value.toString)
    ELSE ThrownByEntries(Tail(conditions))

ThrownByFilter(filters) ==
    IF IsDefined(filters) THEN ThrownByEntries(filters[1].conditions) ELSE undefined

RECURSIVE ThrownByLinks(_)
ThrownByLinks(links) ==
    IF links = <<>> THEN undefined
    ELSE IF IsDefined(ThrownByFilter(Head(links).filters))
    THEN ThrownByFilter(Head(links).filters)
    ELSE IF IsDefined(Head(links).links) /\ IsDefined(ThrownByLinks(Head(links).links[1]))
    THEN ThrownByLinks(Head(links).links[1])
    ELSE ThrownByLinks(Tail(links))

\* what rendering q raises, if anything: the filter is rendered before the
\* links
ThrownByRendering(q) ==
    IF IsDefined(ThrownByFilter(q.filters)) THEN ThrownByFilter(q.filters)
    ELSE IF IsDefined(q.links) THEN ThrownByLinks(q.links[1])
    ELSE undefined

\* (error as Error).message for a value that is neither null nor undefined,
\* as the template literal shows it
MessageOf(error) == IF error.type = "Error" THEN error.message ELSE "undefined"

\* the catch block as it would be if it read the message of the cause with
\* error?.message
catch_guarded(error) ==
    QueryBuildError("Failed to build FetchXML: " \o MessageOf(error))

\* the catch block of FetchXMLBuilder.build: it reads error.message, first
\* for the log and then for the QueryBuildError; the read itself raises a
\* TypeError when error is null
catch(error) ==
    IF error.type = "null"
    THEN TypeError("Cannot read properties of null (reading 'message')")
    ELSE QueryBuildError("Failed to build FetchXML: " \o MessageOf(error))

\* FetchXMLBuilder.build: the error it raises, if any, and the string it
\* returns otherwise
FetchXMLBuilder_build(q) ==
    IF IsDefined(ThrownByRendering(q))
    THEN [err |-> catch(ThrownByRendering(q)[1]), xml |-> undefined]
    ELSE [err |-> NoError, xml |-> Some(build(q))]

(***************************************************************************)
(* Query model                                                             *)
(***************************************************************************)
\* the FetchQuery the constructor creates; an optional field that is not
\* set is undefined
NewQuery(entity) ==
    [entity |-> entity, attributes |-> <<>>, filters |-> undefined,
     orders |-> undefined, links |-> undefined, distinct |-> undefined,
     top |-> undefined, page |-> undefined, count |-> undefined]

\* the result of a builder call: the error it raised, if any, and the model
\* as the call leaves it
Return(q) == [err |-> NoError, query |-> q]

Throw(e, q) == [err |-> e, query |-> q]

\* the first error raised by validating names[1], names[2], ... in order
RECURSIVE FirstNameError(_)
FirstNameError(names) ==
    IF names = <<>> THEN NoError
    ELSE IF validateAttributeName(Head(names)).thrown
         THEN validateAttributeName(Head(names))
    ELSE FirstNameError(Tail(names))

\* attributes.map(attr => ({ name: attr }))
NewAttributes(names) == [i \in 1..Len(names) |-> [name |-> names[i]]]

\* filters.conditions.push(condition), the group created on first use
\* PushCondition as it would be if every where started a new group
PushCondition_fresh(filters, condition) ==
    Some([type |-> "and", conditions |-> <<condition>>])

PushCondition(filters, condition) ==
    LET group == IF ~IsDefined(filters) THEN [type |-> "and", conditions |-> <<>>]
                 ELSE filters[1]
    IN  Some([group EXCEPT !.conditions = Append(@, condition)])

\* list.push(item), the list created on first use
PushOptional(list, item) ==
    Some(Append(IF ~IsDefined(list) THEN <<>> ELSE list[1], item))

(***************************************************************************)
(* Entity Builder (BaseEntity)                                             *)
(***************************************************************************)
\* the longest prefix of names whose names all pass validateAttributeName
RECURSIVE ValidPrefix(_)
ValidPrefix(names) ==
    IF names = <<>> \/ validateAttributeName(Head(names)).thrown THEN <<>>
    ELSE <<Head(names)>> \o ValidPrefix(Tail(names))

\* select as it would be with each name pushed as soon as it is validated
select_eager(q, names) ==
    IF FirstNameError(names).thrown
    THEN Throw(FirstNameError(names),
               [q EXCEPT !.attributes = @ \o NewAttributes(ValidPrefix(names))])
    ELSE Return([q EXCEPT !.attributes = @ \o NewAttributes(names)])

select(q, names) ==
    IF FirstNameError(names).thrown THEN Throw(FirstNameError(names), q)
    ELSE Return([q EXCEPT !.attributes = @ \o NewAttributes(names)])

selectAs(q, attribute, alias) ==
    IF validateAttributeName(attribute).thrown
    THEN Throw(validateAttributeName(attribute), q)
    ELSE IF validateAttributeName(alias).thrown
    THEN Throw(validateAttributeName(alias), q)
    ELSE Return([q EXCEPT !.attributes =
                    Append(@, [name |-> attribute, alias |-> Some(alias)])])

\* attribute and alias are optional strings; self is the entityName field of
\* the concrete entity class
addAggregate(q, self, aggregate, attribute, alias) ==
    LET attributeName == IF OptStrTruthy(attribute) THEN attribute[1]
                         ELSE self \o "id"
    IN  IF validateAggregateType(aggregate).thrown
        THEN Throw(validateAggregateType(aggregate), q)
        ELSE IF OptStrTruthy(attribute) /\ validateAttributeName(attributeName).thrown
        THEN Throw(validateAttributeName(attributeName), q)
        ELSE Return([q EXCEPT !.attributes =
                        Append(@, [name |-> attributeName, alias |-> alias,
                                   aggregate |-> aggregate])])

count(q, self, attribute, alias) == addAggregate(q, self, "count", attribute, alias)

sum(q, self, attribute, alias) == addAggregate(q, self, "sum", attribute, alias)

avg(q, self, attribute, alias) == addAggregate(q, self, "avg", attribute, alias)

min(q, self, attribute, alias) == addAggregate(q, self, "min", attribute, alias)

max(q, self, attribute, alias) == addAggregate(q, self, "max", attribute, alias)

where(q, attribute, operator, value) ==
    IF validateAttributeName(attribute).thrown
    THEN Throw(validateAttributeName(attribute), q)
    ELSE IF validateFilterOperator(operator).thrown
    THEN Throw(validateFilterOperator(operator), q)
    ELSE Return([q EXCEPT !.filters =
                    PushCondition(@, [attribute |-> attribute,
                                      operator |-> operator, value |-> value])])

\* orderBy as it would be with the orders list created before the order is
\* validated
orderBy_eager(q, attribute, order) ==
    LET ord == IF IsDefined(order) THEN order[1] ELSE "asc"
        created == [q EXCEPT !.orders = IF IsDefined(@) THEN @ ELSE Some(<<>>)]
    IN  IF validateAttributeName(attribute).thrown
        THEN Throw(validateAttributeName(attribute), q)
        ELSE IF validateOrderType(ord).thrown
        THEN Throw(validateOrderType(ord), created)
        ELSE Return([q EXCEPT !.orders =
                        PushOptional(@, [attribute |-> attribute, order |-> ord])])

\* order is an optional string: 'asc' when omitted
orderBy(q, attribute, order) ==
    LET ord == IF IsDefined(order) THEN order[1] ELSE "asc"
    IN  IF validateAttributeName(attribute).thrown
        THEN Throw(validateAttributeName(attribute), q)
        ELSE IF validateOrderType(ord).thrown
        THEN Throw(validateOrderType(ord), q)
        ELSE Return([q EXCEPT !.orders =
                        PushOptional(@, [attribute |-> attribute, order |-> ord])])

\* top as it would be if a top already set were kept
top_first(q, n) ==
    IF validateTop(n).thrown THEN Throw(validateTop(n), q)
    ELSE IF IsDefined(q.top) THEN Return(q)
    ELSE Return([q EXCEPT !.top = Some(n)])

top(q, n) ==
    IF validateTop(n).thrown THEN Throw(validateTop(n), q)
    ELSE Return([q EXCEPT !.top = Some(n)])

DEFAULT_PAGE_SIZE == 50

\* pageSize is an optional number: 50 when omitted
page(q, pageNumber, pageSize) ==
    LET size == IF IsDefined(pageSize) THEN pageSize[1] ELSE Num(DEFAULT_PAGE_SIZE)
    IN  IF validatePagination(pageNumber, size).thrown
        THEN Throw(validatePagination(pageNumber, size), q)
        ELSE Return([q EXCEPT !.page = Some(pageNumber), !.count = Some(size)])

distinct(q) == Return([q EXCEPT !.distinct = Some(TRUE)])

\* groupBy as it would be if it recorded the name as an attribute of the model
groupBy_recording(q, attribute) ==
    IF validateAttributeName(attribute).thrown
    THEN Throw(validateAttributeName(attribute), q)
    ELSE Return([q EXCEPT !.attributes = Append(@, [name |-> attribute])])

groupBy(q, attribute) ==
    IF validateAttributeName(attribute).thrown
    THEN Throw(validateAttributeName(attribute), q)
    ELSE Return(q)

\* alias and linkType are optional strings
NewLink(entity, from, to, alias, linkType) ==
    [name |-> entity, from |-> from, to |-> to, alias |-> alias,
     linkType |-> linkType, attributes |-> <<>>, filters |-> undefined,
     links |-> undefined]

\* join as it would be if a later link were placed inside the link joined last
join_nested(q, entity, from, to, alias, linkType) ==
    IF validateEntityName(entity).thrown THEN Throw(validateEntityName(entity), q)
    ELSE IF validateAttributeName(from).thrown
    THEN Throw(validateAttributeName(from), q)
    ELSE IF validateAttributeName(to).thrown
    THEN Throw(validateAttributeName(to), q)
    ELSE IF ~IsDefined(q.links)
    THEN Return([q EXCEPT !.links =
                    PushOptional(@, NewLink(entity, from, to, alias, linkType))])
    ELSE Return([q EXCEPT !.links[1][Len(q.links[1])].links =
                    PushOptional(@, NewLink(entity, from, to, alias, linkType))])

join(q, entity, from, to, alias, linkType) ==
    IF validateEntityName(entity).thrown THEN Throw(validateEntityName(entity), q)
    ELSE IF validateAttributeName(from).thrown
    THEN Throw(validateAttributeName(from), q)
    ELSE IF validateAttributeName(to).thrown
    THEN Throw(validateAttributeName(to), q)
    ELSE Return([q EXCEPT !.links =
                    PushOptional(@, NewLink(entity, from, to, alias, linkType))])

(***************************************************************************)
(* Join Builder: bound to one link of the parent's model.  A call returns  *)
(* the error it raised and the link as the call leaves it.                 *)
(***************************************************************************)
ReturnLink(l) == [err |-> NoError, link |-> l]

ThrowLink(e, l) == [err |-> e, link |-> l]

JoinBuilder_select(l, names) ==
    IF FirstNameError(names).thrown THEN ThrowLink(FirstNameError(names), l)
    ELSE ReturnLink([l EXCEPT !.attributes = @ \o NewAttributes(names)])

JoinBuilder_selectAs(l, attribute, alias) ==
    IF validateAttributeName(attribute).thrown
    THEN ThrowLink(validateAttributeName(attribute), l)
    ELSE IF validateAttributeName(alias).thrown
    THEN ThrowLink(validateAttributeName(alias), l)
    ELSE ReturnLink([l EXCEPT !.attributes =
                        Append(@, [name |-> attribute, alias |-> Some(alias)])])

JoinBuilder_where(l, attribute, operator, value) ==
    IF validateAttributeName(attribute).thrown
    THEN ThrowLink(validateAttributeName(attribute), l)
    ELSE IF validateFilterOperator(operator).thrown
    THEN ThrowLink(validateFilterOperator(operator), l)
    ELSE ReturnLink([l EXCEPT !.filters =
                        PushCondition(@, [attribute |-> attribute,
                                          operator |-> operator, value |-> value])])

\* WithLink as it would be if every Join Builder of the parent were bound to
\* the first link of the list
WithLink_first(q, i, l) == [q EXCEPT !.links = Some([@[1] EXCEPT ![1] = l])]

\* the parent's model after a call on the Join Builder of its i-th link
WithLink(q, i, l) == [q EXCEPT !.links = Some([@[1] EXCEPT ![i] = l])]

(***************************************************************************)
(* A reference reader of the output, used to state what a document says:   *)
(* it splits a document into its tags, reads each tag's name and XML       *)
(* attributes, and unescapes attribute values.                             *)
(***************************************************************************)
\* the least j >= i with s[j] = c, or 0 when there is none
RECURSIVE FindChar(_, _, _)
FindChar(s, c, i) ==
    IF i > Len(s) THEN 0
    ELSE IF CharAt(s, i) = c THEN i
    ELSE FindChar(s, c, i + 1)

\* the least j >= i where the tag name that starts before j ends
RECURSIVE NameEnd(_, _)
NameEnd(s, i) ==
    IF i > Len(s) THEN 0
    ELSE IF CharAt(s, i) \in {" ", ">", "/"} THEN i
    ELSE NameEnd(s, i + 1)

\* s has the text t at position i
HasAt(s, t, i) == i + Len(t) - 1 <= Len(s) /\ SubSeq(s, i, i + Len(t) - 1) = t

\* the XML attributes of a tag from position i on (just after the tag name or
\* after an attribute): [ok, attrs: <<key, raw value>> pairs, self, next]
RECURSIVE ReadAttrs(_, _, _)
ReadAttrs(s, i, acc) ==
    IF HasAt(s, "/>", i) THEN [ok |-> TRUE, attrs |-> acc, self |-> TRUE, next |-> i + 2]
    ELSE IF HasAt(s, ">", i)
    THEN [ok |-> TRUE, attrs |-> acc, self |-> FALSE, next |-> i + 1]
    ELSE IF ~HasAt(s, " ", i)
    THEN [ok |-> FALSE, attrs |-> acc, self |-> FALSE, next |-> i]
    ELSE LET e == FindChar(s, "=", i + 1)
             v == IF e = 0 THEN 0 ELSE FindChar(s, "\"", e + 2)
         IN  IF e = 0 \/ ~HasAt(s, "\"", e + 1) \/ v = 0
             THEN [ok |-> FALSE, attrs |-> acc, self |-> FALSE, next |-> i]
             ELSE ReadAttrs(s, v + 1,
                            Append(acc, <<SubSeq(s, i + 1, e - 1),
                                          SubSeq(s, e + 2, v - 1)>>))

\* the tags of the document s from position i on; a tag is
\* [kind: "open" | "self" | "close" | "error", name, attrs]
RECURSIVE ReadTags(_, _)
ReadTags(s, i) ==
    IF i > Len(s) THEN <<>>
    ELSE IF HasAt(s, "</", i)
    THEN LET j == FindChar(s, ">", i)
         IN  IF j = 0 THEN <<[kind |-> "error", name |-> "", attrs |-> <<>>]>>
             ELSE <<[kind |-> "close", name |-> SubSeq(s, i + 2, j - 1),
                     attrs |-> <<>>]>> \o ReadTags(s, j + 1)
    ELSE IF HasAt(s, "<", i)
    THEN LET j == NameEnd(s, i + 1)
             r == IF j = 0 THEN [ok |-> FALSE] ELSE ReadAttrs(s, j, <<>>)
         IN  IF ~r.ok THEN <<[kind |-> "error", name |-> "", attrs |-> <<>>]>>
             ELSE <<[kind |-> IF r.self THEN "self" ELSE "open",
                     name |-> SubSeq(s, i + 1, j - 1), attrs |-> r.attrs]>>
                  \o ReadTags(s, r.next)
    ELSE <<[kind |-> "error", name |-> "", attrs |-> <<>>]>>

Tags(s) == ReadTags(s, 1)

\* the nesting depth of each tag of ts, the first tag at depth d
RECURSIVE Depths(_, _)
Depths(ts, d) ==
    IF ts = <<>> THEN <<>>
    ELSE IF Head(ts).kind = "open" THEN <<d>> \o Depths(Tail(ts), d + 1)
    ELSE IF Head(ts).kind = "close" THEN <<d - 1>> \o Depths(Tail(ts), d - 1)
    ELSE <<d>> \o Depths(Tail(ts), d)

\* the elements named name at depth d of the tags ts, in document order
ElementsAt(ts, name, d) ==
    LET ds == Depths(ts, 0)
        idx == SelectSeq([i \in 1..Len(ts) |-> i],
                         LAMBDA i : /\ ts[i].name = name
                                    /\ ts[i].kind \in {"self", "open"}
                                    /\ ds[i] = d)
    IN  [k \in 1..Len(idx) |-> ts[idx[k]]]

\* the XML attribute keys of a tag, in order
Keys(tag) == [i \in 1..Len(tag.attrs) |-> tag.attrs[i][1]]

\* the raw value of the XML attribute key of a tag (the tag has the key)
Raw(tag, key) ==
    tag.attrs[CHOOSE i \in 1..Len(tag.attrs) : tag.attrs[i][1] = key][2]

HasKey(tag, key) == \E i \in 1..Len(tag.attrs) : tag.attrs[i][1] = key

XmlEntities ==
    <<<<"&amp;", "&">>, <<"&lt;", "<">>, <<"&gt;", ">">>, <<"&quot;", "\"">>,
      <<"&#39;", "'">>>>

\* the reference unescaper: one pass, left to right; an & that starts no
\* entity is kept
RECURSIVE Unescape(_)
Unescape(s) ==
    IF s = "" THEN ""
    ELSE IF \E k \in 1..Len(XmlEntities) : HasAt(s, XmlEntities[k][1], 1)
    THEN LET k == CHOOSE k \in 1..Len(XmlEntities) : HasAt(s, XmlEntities[k][1], 1)
         IN  XmlEntities[k][2] \o Unescape(SubSeq(s, Len(XmlEntities[k][1]) + 1, Len(s)))
    ELSE CharAt(s, 1) \o Unescape(SubSeq(s, 2, Len(s)))

\* the unescaped value of the XML attribute key of each tag of ts
ValuesOf(ts, key) == [i \in 1..Len(ts) |-> Unescape(Raw(ts[i], key))]

\* a raw attribute value is clean: no raw < > " ', and every & starts an entity
RECURSIVE CleanValue(_)
CleanValue(s) ==
    IF s = "" THEN TRUE
    ELSE IF CharAt(s, 1) \in {"<", ">", "\"", "'"} THEN FALSE
    ELSE IF CharAt(s, 1) = "&"
    THEN /\ \E k \in 1..Len(XmlEntities) : HasAt(s, XmlEntities[k][1], 1)
         /\ CleanValue(SubSeq(s, 2, Len(s)))
    ELSE CleanValue(SubSeq(s, 2, Len(s)))

(***************************************************************************)
(* State: one Entity Builder and the Join Builders its join calls returned *)
(***************************************************************************)
VARIABLES
    entityName,  \* the entityName field the concrete entity class declares
    query,       \* the builder's FetchQuery; the Join Builder of the i-th
                 \* join holds a reference to query.links[1][i]
    last,        \* the call made last: its name, the builder it was made on
                 \* (0: the Entity Builder, i: the Join Builder of link i),
                 \* its arguments, the error it raised and the builder it
                 \* returned
    xml          \* the string the call made last returned, if it was build()

vars == <<entityName, query, last, xml>>

NumLinks(q) == IF IsDefined(q.links) THEN Len(q.links[1]) ELSE 0

NumConditions(filters) == IF IsDefined(filters) THEN Len(filters[1].conditions) ELSE 0

RECURSIVE LinkItems(_)
LinkItems(links) ==
    IF links = <<>> THEN 0
    ELSE 1 + Len(Head(links).attributes) + NumConditions(Head(links).filters)
         + LinkItems(Tail(links))

\* the number of attributes, conditions, orders and links of the model
Size(q) ==
    Len(q.attributes) + NumConditions(q.filters)
    + (IF IsDefined(q.orders) THEN Len(q.orders[1]) ELSE 0)
    + (IF IsDefined(q.links) THEN LinkItems(q.links[1]) ELSE 0)

\* the number of fetch options set
Options(q) ==
    (IF IsDefined(q.distinct) THEN 1 ELSE 0) + (IF IsDefined(q.top) THEN 1 ELSE 0)
    + (IF IsDefined(q.page) THEN 1 ELSE 0)

MaxItems == 3

\* The builders are named by numbers: 0 is the Entity Builder, i is the Join
\* Builder that join() made for the i-th link of the root's list.
\* the builder a successful call of op on builder b returns: a new Join
\* Builder for the link just pushed from join, the builder itself (return
\* this) from every other method; nothing is returned when the call raises
Returned(op, b, r) ==
    IF r.err.thrown THEN undefined
    ELSE IF op = "join" THEN Some(NumLinks(r.query))
    ELSE Some(b)

\* a call as it would be if every method returned a copy of its builder
Call_copy(op, b, args, r) ==
    /\ Size(r.query) + Options(r.query) <= MaxItems
    /\ query' = r.query
    /\ last' = [op |-> op, on |-> b, args |-> args, err |-> r.err,
                ret |-> IF r.err.thrown THEN undefined ELSE Some(-1)]
    /\ xml' = undefined
    /\ UNCHANGED entityName

\* a call of op with arguments args on builder b that ends as r = [err, query]
Call(op, b, args, r) ==
    LET result == r
    IN  /\ Size(result.query) + Options(result.query) <= MaxItems
        /\ query' = result.query
        /\ last' = [op |-> op, on |-> b, args |-> args, err |-> result.err,
                    ret |-> Returned(op, b, result)]
        /\ xml' = undefined
        /\ UNCHANGED entityName

\* a call on a Join Builder as it would be if end() detached the builder from
\* the model, so that a call made after end() wrote a copy of the link
CallOnLink_detached(op, i, args, r) ==
    Call(op, i, args,
         [err |-> r.err,
          query |-> IF last.op = "end" THEN query ELSE WithLink(query, i, r.link)])

\* a call of op on the Join Builder of link i that ends as r = [err, link]
CallOnLink(op, i, args, r) ==
    Call(op, i, args, [err |-> r.err, query |-> WithLink(query, i, r.link)])

Construct(self, entity) ==
    /\ entityName = self
    /\ query = NewQuery(entity)
    /\ last = [op |-> "constructor", on |-> 0, args |-> <<entity>>, err |-> NoError,
               ret |-> Some(0)]
    /\ xml = undefined

Select(names) == Call("select", 0, <<names>>, select(query, names))

SelectAs(attribute, alias) == Call("selectAs", 0, <<attribute, alias>>, selectAs(query, attribute, alias))

Count(attribute, alias) == Call("count", 0, <<attribute, alias>>,
         count(query, entityName, attribute, alias))

Sum(attribute, alias) == Call("sum", 0, <<attribute, alias>>,
         sum(query, entityName, attribute, alias))

Avg(attribute, alias) == Call("avg", 0, <<attribute, alias>>,
         avg(query, entityName, attribute, alias))

Min(attribute, alias) == Call("min", 0, <<attribute, alias>>,
         min(query, entityName, attribute, alias))

Max(attribute, alias) == Call("max", 0, <<attribute, alias>>,
         max(query, entityName, attribute, alias))

Where(attribute, operator, value) ==
    Call("where", 0, <<attribute, operator, value>>, where(query, attribute, operator, value))

OrderBy(attribute, order) == Call("orderBy", 0, <<attribute, order>>, orderBy(query, attribute, order))

Top(n) == Call("top", 0, <<n>>, top(query, n))

Page(pageNumber, pageSize) == Call("page", 0, <<pageNumber, pageSize>>, page(query, pageNumber, pageSize))

Distinct == Call("distinct", 0, <<>>, distinct(query))

GroupBy(attribute) == Call("groupBy", 0, <<attribute>>, groupBy(query, attribute))

Join(entity, from, to, alias, linkType) ==
    Call("join", 0, <<entity, from, to, alias, linkType>>, join(query, entity, from, to, alias, linkType))

JoinSelect(i, names) ==
    CallOnLink("select", i, <<names>>, JoinBuilder_select(query.links[1][i], names))

JoinSelectAs(i, attribute, alias) ==
    CallOnLink("selectAs", i, <<attribute, alias>>,
               JoinBuilder_selectAs(query.links[1][i], attribute, alias))

JoinWhere(i, attribute, operator, value) ==
    CallOnLink("where", i, <<attribute, operator, value>>,
               JoinBuilder_where(query.links[1][i], attribute, operator, value))

\* the parent of the Join Builder of link i: the Entity Builder whose join
\* made it
parent(i) == 0

\* end() as it would be if it returned the Join Builder itself
end_self(i) == i

\* JoinBuilder.end()
end(i) == parent(i)

\* JoinBuilder.end(): returns the parent, changes nothing
End(i) ==
    /\ last' = [op |-> "end", on |-> i, args |-> <<>>, err |-> NoError,
                ret |-> Some(end(i))]
    /\ xml' = undefined
    /\ UNCHANGED <<entityName, query>>

\* build() as it would be if rendering used up the attributes of the model
Build_consuming ==
    /\ last' = [op |-> "build", on |-> 0, args |-> <<>>, err |-> NoError,
                ret |-> undefined]
    /\ xml' = Some(build(query))
    /\ query' = [query EXCEPT !.attributes = <<>>]
    /\ UNCHANGED entityName

\* BaseEntity.build(): returns the string FetchXMLBuilder.build returns and
\* raises again what it raises
Build ==
    LET r == FetchXMLBuilder_build(query)
    IN  /\ last' = [op |-> "build", on |-> 0, args |-> <<>>, err |-> r.err,
                    ret |-> undefined]
        /\ xml' = r.xml
        /\ UNCHANGED <<entityName, query>>

(***************************************************************************)
(* Spec: every operation of both builders, on a few arguments each: valid  *)
(* names, a name with reserved characters, the empty name and a            *)
(* whitespace-only name                                                    *)
(***************************************************************************)
Names == {"", "n"}

NameLists == {<<>>, <<"n">>, <<"a&b", "n">>, <<"n", " ">>}

AliasPairs == {<<"n", "A">>, <<"", "A">>, <<"n", " ">>}

AggregateArgs == {<<Some("n"), Some("A")>>, <<Some(" "), undefined>>}

WhereArgs ==
    {<<"n", "eq", VNum(Num(0))>>, <<"a&b", "null", VUndefined>>,
     <<"n", "bogus", VUndefined>>, <<"", "eq", VNum(Num(0))>>}

OrderArgs ==
    {<<"n", undefined>>, <<"n", Some("desc")>>, <<"n", Some("up")>>, <<"", undefined>>}

Tops == {Num(0), Num(10)}

PageArgs == {<<Num(2), undefined>>, <<Num(2), Some(Num(0))>>}

JoinArgs ==
    {<<"contact", "n", "id", undefined>>, <<"email", "n", "id", Some("E")>>,
     <<"", "n", "id", undefined>>, <<"contact", "n", " ", undefined>>}

Init == Construct("account", "account")

Next ==
    \/ \E names \in NameLists : Select(names)
    \/ \E a \in AliasPairs : SelectAs(a[1], a[2])
    \/ \E a \in AggregateArgs \cup {<<undefined, undefined>>} : Count(a[1], a[2])
    \/ \E a \in WhereArgs : Where(a[1], a[2], a[3])
    \/ \E a \in OrderArgs : OrderBy(a[1], a[2])
    \/ \E n \in Tops : Top(n)
    \/ \E a \in PageArgs : Page(a[1], a[2])
    \/ Distinct
    \/ \E a \in Names : GroupBy(a)
    \/ \E a \in JoinArgs : Join(a[1], a[2], a[3], a[4], undefined)
    \/ \E i \in 1..NumLinks(query), names \in NameLists : JoinSelect(i, names)
    \/ \E i \in 1..NumLinks(query), a \in AliasPairs : JoinSelectAs(i, a[1], a[2])
    \/ \E i \in 1..NumLinks(query), a \in WhereArgs : JoinWhere(i, a[1], a[2], a[3])
    \/ \E i \in 1..NumLinks(query) : End(i)
    \/ Build

Spec == Init /\ [][Next]_vars

(***************************************************************************)
(* SpecChars: names, aliases and values that hold the reserved characters, *)
(* the entity name given to the constructor included                       *)
(***************************************************************************)
CharNames == {"R&D <b>", "it's \"x\""}

InitChars == \E e \in CharNames \cup {"account"} : Construct("account", e)

NextChars ==
    \/ \E a \in CharNames : Select(<<a>>)
    \/ \E a \in CharNames : SelectAs(a, a)
    \/ \E a \in CharNames : Where(a, "eq", VStr(a))
    \/ \E a \in CharNames : OrderBy(a, undefined)
    \/ \E a \in CharNames : Join(a, a, a, Some(a), undefined)
    \/ \E i \in 1..NumLinks(query), a \in CharNames : JoinSelectAs(i, a, a)
    \/ \E i \in 1..NumLinks(query), a \in CharNames : JoinWhere(i, a, "eq", VStr(a))
    \/ Build

SpecChars == InitChars /\ [][NextChars]_vars

(***************************************************************************)
(* SpecRoundTrip: one condition whose value is any string of up to         *)
(* MaxStrLen characters over the reserved characters and the letters of    *)
(* the entity names, rendered by build()                                   *)
(***************************************************************************)
MaxStrLen == 4

Alphabet == {"&", "<", ">", "\"", "'", "l", "t", ";"}

RECURSIVE Strings(_)
Strings(n) ==
    IF n = 0 THEN {""}
    ELSE LET shorter == Strings(n - 1)
         IN  shorter \cup {s \o c : s \in shorter, c \in Alphabet}

InitRoundTrip == Construct("account", "account")

NextRoundTrip ==
    \/ Size(query) = 0 /\ \E s \in Strings(MaxStrLen) : Where("n", "eq", VStr(s))
    \/ Build

SpecRoundTrip == InitRoundTrip /\ [][NextRoundTrip]_vars

(***************************************************************************)
(* SpecValues: conditions with every kind of value, on the Entity Builder  *)
(* and on one Join Builder                                                 *)
(***************************************************************************)
MaxConditions == 2

ValueInputs ==
    {VUndefined, VNull, VNum(Num(0)), VNum(Num(-1000)), VBool(FALSE), VBool(TRUE),
     VStr(""), VStr("a<b")}

InitValues == Construct("account", "account")

NextValues ==
    \/ /\ NumConditions(query.filters) < MaxConditions
       /\ \E v \in ValueInputs : Where("statecode", "eq", v)
    \/ NumLinks(query) = 0 /\ Join("contact", "accountid", "parentcustomerid",
                                   undefined, undefined)
    \/ \E i \in 1..NumLinks(query) :
          /\ NumConditions(query.links[1][i].filters) < MaxConditions
          /\ \E v \in ValueInputs : JoinWhere(i, "statecode", "eq", v)
    \/ Build

SpecValues == InitValues /\ [][NextValues]_vars

(***************************************************************************)
(* SpecOperators: where with every operator of the FilterOperator type and *)
(* with strings outside it, on the Entity Builder and on a Join Builder    *)
(***************************************************************************)
\* the FilterOperator type
FilterOperator ==
    {"eq", "ne", "gt", "ge", "lt", "le", "like", "not-like", "in", "not-in",
     "null", "not-null", "on", "on-or-before", "on-or-after", "yesterday",
     "today", "tomorrow", "last-seven-days", "next-seven-days", "last-week",
     "this-week", "next-week", "last-month", "this-month", "next-month",
     "last-year", "this-year", "next-year"}

OperatorInputs == FilterOperator \cup {"bogus-operator", "", "EQ", "not null"}

MaxOperatorConditions == 1

\* the number of conditions of the model, those of its links included
RECURSIVE LinkConditions(_)
LinkConditions(links) ==
    IF links = <<>> THEN 0
    ELSE NumConditions(Head(links).filters) + LinkConditions(Tail(links))

AllConditions(q) ==
    NumConditions(q.filters)
    + (IF IsDefined(q.links) THEN LinkConditions(q.links[1]) ELSE 0)

InitOperators == Construct("account", "account")

NextOperators ==
    \/ /\ \E o \in OperatorInputs : Where("name", o, VUndefined)
       /\ AllConditions(query') <= MaxOperatorConditions
    \/ /\ NumLinks(query) = 0
       /\ Join("contact", "accountid", "parentcustomerid", undefined, undefined)
    \/ /\ \E i \in 1..NumLinks(query), o \in OperatorInputs :
             JoinWhere(i, "name", o, VUndefined)
       /\ AllConditions(query') <= MaxOperatorConditions
    \/ Build

SpecOperators == InitOperators /\ [][NextOperators]_vars

(***************************************************************************)
(* SpecPaging: top and page with numbers at, inside and outside the limits *)
(* of the validator, the number NaN included, and the page size omitted    *)
(***************************************************************************)
TopInputs == {Num(-1), Num(0), Num(1), Num(10), Num(5000), Num(5001), NaN}

PageNumbers == {Num(0), Num(1), Num(2), NaN}

PageSizes ==
    {undefined, Some(Num(0)), Some(Num(1)), Some(Num(50)), Some(Num(5000)),
     Some(Num(5001)), Some(NaN)}

InitPaging == Construct("account", "account")

NextPaging ==
    \/ \E n \in TopInputs : Top(n)
    \/ \E p \in PageNumbers, s \in PageSizes : Page(p, s)
    \/ Distinct
    \/ Build

SpecPaging == InitPaging /\ [][NextPaging]_vars

(***************************************************************************)
(* SpecAggregate: the five aggregate calls with and without an alias,      *)
(* count with the attribute omitted, on a builder whose entityName field   *)
(* and whose constructor argument are chosen separately                    *)
(***************************************************************************)
EntityNames == {"account", "contact"}

AggregateInputs ==
    {<<Some("revenue"), Some("TotalRevenue")>>, <<Some("revenue"), undefined>>,
     <<Some(" "), Some("TotalRevenue")>>}

CountInputs == AggregateInputs \cup {<<undefined, undefined>>, <<undefined, Some("Total")>>}

MaxAggregates == 2

InitAggregate == \E self \in EntityNames, entity \in EntityNames : Construct(self, entity)

NextAggregate ==
    \/ /\ \E a \in CountInputs : Count(a[1], a[2])
       /\ Len(query'.attributes) <= MaxAggregates
    \/ /\ \E a \in AggregateInputs : Sum(a[1], a[2])
       /\ Len(query'.attributes) <= MaxAggregates
    \/ /\ \E a \in AggregateInputs : Avg(a[1], a[2])
       /\ Len(query'.attributes) <= MaxAggregates
    \/ /\ \E a \in AggregateInputs : Min(a[1], a[2])
       /\ Len(query'.attributes) <= MaxAggregates
    \/ /\ \E a \in AggregateInputs : Max(a[1], a[2])
       /\ Len(query'.attributes) <= MaxAggregates
    \/ /\ Select(<<"name">>)
       /\ Len(query'.attributes) <= MaxAggregates
    \/ Build

SpecAggregate == InitAggregate /\ [][NextAggregate]_vars

(***************************************************************************)
(* SpecChain: every method of both builders with valid arguments, in any   *)
(* order, and groupBy with valid and blank names                           *)
(***************************************************************************)
ChainNames == {"name", "", " "}

MaxChainItems == 3

InitChain == Construct("account", "account")

NextChain ==
    \/ /\ \/ Select(<<"name">>)
          \/ SelectAs("name", "alias")
          \/ Count(undefined, undefined)
          \/ Sum(Some("name"), undefined)
          \/ Avg(Some("name"), undefined)
          \/ Min(Some("name"), undefined)
          \/ Max(Some("name"), undefined)
          \/ \E o \in {"eq", "ne"} : Where("name", o, VNum(Num(1)))
          \/ OrderBy("name", undefined)
          \/ Top(Num(5))
          \/ Page(Num(2), undefined)
          \/ Distinct
          \/ \E a \in ChainNames : GroupBy(a)
          \/ Join("contact", "accountid", "parentcustomerid", undefined, undefined)
          \/ \E i \in 1..NumLinks(query) : JoinSelect(i, <<"name">>)
          \/ \E i \in 1..NumLinks(query) : JoinSelectAs(i, "name", "alias")
          \/ \E i \in 1..NumLinks(query), o \in {"eq", "ne"} :
                JoinWhere(i, "name", o, VNum(Num(1)))
       /\ Size(query') + Options(query') <= MaxChainItems
    \/ \E i \in 1..NumLinks(query) : End(i)
    \/ Build

SpecChain == InitChain /\ [][NextChain]_vars

(***************************************************************************)
(* SpecNested: a builder whose model holds, from the start, a link with a  *)
(* link of its own (the query field is protected: a concrete entity class  *)
(* can fill it, and FetchXMLBuilder takes any model), followed by calls of *)
(* every category in any order                                             *)
(***************************************************************************)
\* a link as a model written by hand holds it
LinkWith(entity, attributes, filters, links) ==
    [NewLink(entity, "from", "to", undefined, undefined)
        EXCEPT !.attributes = NewAttributes(attributes),
               !.filters = filters, !.links = links]

NestedAttributes == {<<>>, <<"inner">>}

NestedFilters ==
    {undefined, PushCondition(undefined, [attribute |-> "state", operator |-> "eq",
                                           value |-> VNum(Num(0))])}

DeepLinks == {undefined, Some(<<LinkWith("deep", <<>>, undefined, undefined)>>)}

NestedLinks ==
    {LinkWith("outer", a1, f1, Some(<<LinkWith("nested", a2, f2, l3)>>)) :
        a1 \in NestedAttributes, f1 \in NestedFilters,
        a2 \in NestedAttributes, f2 \in NestedFilters, l3 \in DeepLinks}

InitNested ==
    /\ entityName = "account"
    /\ \E links \in {undefined} \cup {Some(<<l>>) : l \in NestedLinks} :
          query = [NewQuery("account") EXCEPT !.links = links]
    /\ last = [op |-> "constructor", on |-> 0, args |-> <<"account">>, err |-> NoError,
               ret |-> Some(0)]
    /\ xml = undefined

\* the links of the root that join() made: those with a Join Builder
Joined(q) == {i \in 1..NumLinks(q) : ~IsDefined(q.links[1][i].links)}

NextNested ==
    \/ Select(<<"name">>)
    \/ Where("name", "eq", VNum(Num(1)))
    \/ OrderBy("name", undefined)
    \/ Join("contact", "accountid", "parentcustomerid", undefined, undefined)
    \/ \E i \in Joined(query) : JoinSelect(i, <<"fullname">>)
    \/ \E i \in Joined(query) : JoinWhere(i, "name", "eq", VNum(Num(1)))
    \/ Build

SpecNested == InitNested /\ [][NextNested]_vars

(***************************************************************************)
(* SpecEntityNames: builders constructed with a valid, an empty and a      *)
(* whitespace-only entity name                                             *)
(***************************************************************************)
ConstructorNames == {"account", "", " "}

InitEntityNames == \E e \in ConstructorNames : Construct("account", e)

NextEntityNames ==
    \/ \E a \in {"name", ""} : Select(<<a>>)
    \/ \E o \in {"eq", "ne"} : Where("name", o, VNum(Num(1)))
    \/ \E n \in {Num(0), Num(5)} : Top(n)
    \/ \E e \in ConstructorNames :
          Join(e, "accountid", "parentcustomerid", undefined, undefined)
    \/ Build

SpecEntityNames == InitEntityNames /\ [][NextEntityNames]_vars

(***************************************************************************)
(* SpecBuildError: conditions whose value is an object with a toString()   *)
(* that raises, next to ordinary values, on the Entity Builder and on a    *)
(* Join Builder                                                            *)
(***************************************************************************)
ThrownValues ==
    {JsError("Error", "boom"),
     JsError("TypeError", "condition.value.toString is not a function"),
     JsString("boom"), JsNull}

RenderValues == {VNum(Num(1)), VStr("x")} \cup {VObject(t) : t \in ThrownValues}

InitBuildError == Construct("account", "account")

NextBuildError ==
    \/ Select(<<"name">>)
    \/ \E v \in RenderValues : Where("name", "eq", v)
    \/ Join("contact", "accountid", "parentcustomerid", undefined, undefined)
    \/ \E i \in 1..NumLinks(query), v \in RenderValues : JoinWhere(i, "name", "eq", v)
    \/ Build

SpecBuildError == InitBuildError /\ [][NextBuildError]_vars

(***************************************************************************)
(* SpecValidation: every method of both builders with arguments that pass  *)
(* and arguments that fail each check of the Validator, one and two at a   *)
(* time                                                                    *)
(***************************************************************************)
ValidationNames == {"name", "", " "}

ValidationNameLists == {<<"name">>, <<"">>, <<"name", " ">>, <<" ", "name">>}

ValidationOperators == {"eq", "equals", ""}

ValidationOrders == {undefined, Some("desc"), Some("DESC"), Some("")}

ValidationTops == {Num(0), Num(1), Num(5000), Num(5001)}

ValidationPages == {Num(0), Num(1), NaN}

ValidationSizes == {undefined, Some(Num(0)), Some(Num(50)), Some(Num(5001)), Some(NaN)}

ValidationAttributes == {undefined} \cup {Some(a) : a \in ValidationNames}

ValidationJoins ==
    {<<"contact", "from", "to">>, <<"", "from", "to">>, <<"contact", " ", "to">>,
     <<"contact", "from", "">>, <<" ", "", "to">>}

MaxValidationItems == 1

InitValidation == Construct("account", "account")

NextValidation ==
    \/ /\ \/ \E names \in ValidationNameLists : Select(names)
          \/ \E a \in ValidationNames, b \in ValidationNames : SelectAs(a, b)
          \/ \E a \in ValidationAttributes : Count(a, undefined)
          \/ \E a \in ValidationAttributes : Sum(a, undefined)
          \/ \E a \in ValidationAttributes : Avg(a, undefined)
          \/ \E a \in ValidationAttributes : Min(a, undefined)
          \/ \E a \in ValidationAttributes : Max(a, undefined)
          \/ \E a \in ValidationNames, o \in ValidationOperators :
                Where(a, o, VUndefined)
          \/ \E a \in ValidationNames, o \in ValidationOrders : OrderBy(a, o)
          \/ \E n \in ValidationTops : Top(n)
          \/ \E p \in ValidationPages, s \in ValidationSizes : Page(p, s)
          \/ Distinct
          \/ \E a \in ValidationNames : GroupBy(a)
          \/ \E a \in ValidationJoins : Join(a[1], a[2], a[3], undefined, undefined)
          \/ \E i \in 1..NumLinks(query), names \in ValidationNameLists :
                JoinSelect(i, names)
          \/ \E i \in 1..NumLinks(query), a \in ValidationNames, b \in ValidationNames :
                JoinSelectAs(i, a, b)
          \/ \E i \in 1..NumLinks(query), a \in ValidationNames,
                o \in ValidationOperators : JoinWhere(i, a, o, VUndefined)
       /\ Size(query') + Options(query') <= MaxValidationItems
    \/ Build

SpecValidation == InitValidation /\ [][NextValidation]_vars

(***************************************************************************)
(* SpecBuilders: two Entity Builder instances, constructed for the same or *)
(* for different entity names, and calls on either in any interleaving.    *)
(* In this specification entityName and query are sequences: the field of  *)
(* each instance, one entry per builder; the constructor gives each        *)
(* instance an object literal of its own.  last.builder names the instance *)
(* the call was made on.                                                   *)
(***************************************************************************)
Builders == {1, 2}

MaxBuilderItems == 2

BuilderNames == {<<"name">>, <<"">>}

InitBuilders ==
    /\ \E e2 \in EntityNames :
          /\ entityName = <<"account", e2>>
          /\ query = <<NewQuery("account"), NewQuery(e2)>>
          /\ last = [op |-> "constructor", builder |-> 2, on |-> 0, args |-> <<e2>>,
                     err |-> NoError, ret |-> Some(0)]
    /\ xml = undefined

\* a call as it would be if the constructor gave every instance the same
\* attributes array
BuilderCall_shared(b, op, i, args, r) ==
    /\ Size(r.query) + Options(r.query) <= MaxBuilderItems
    /\ query' = [x \in DOMAIN query |->
                    IF x = b THEN r.query
                    ELSE [query[x] EXCEPT !.attributes = r.query.attributes]]
    /\ last' = [op |-> op, builder |-> b, on |-> i, args |-> args, err |-> r.err,
                ret |-> Returned(op, i, r)]
    /\ xml' = undefined
    /\ UNCHANGED entityName

\* a call of op with arguments args on builder b (i = 0) or on the Join
\* Builder of its link i, that ends as r = [err, query]: it writes the
\* objects reachable from this.query of b
BuilderCall(b, op, i, args, r) ==
    /\ Size(r.query) + Options(r.query) <= MaxBuilderItems
    /\ query' = [query EXCEPT ![b] = r.query]
    /\ last' = [op |-> op, builder |-> b, on |-> i, args |-> args, err |-> r.err,
                ret |-> Returned(op, i, r)]
    /\ xml' = undefined
    /\ UNCHANGED entityName

BuilderSelect(b, names) == BuilderCall(b, "select", 0, <<names>>, select(query[b], names))

BuilderCount(b) ==
    BuilderCall(b, "count", 0, <<undefined, undefined>>,
                count(query[b], entityName[b], undefined, undefined))

BuilderTop(b, n) == BuilderCall(b, "top", 0, <<n>>, top(query[b], n))

BuilderJoin(b) ==
    BuilderCall(b, "join", 0, <<"contact", "from", "to", undefined, undefined>>,
                join(query[b], "contact", "from", "to", undefined, undefined))

BuilderJoinSelect(b, i, names) ==
    LET r == JoinBuilder_select(query[b].links[1][i], names)
    IN  BuilderCall(b, "select", i, <<names>>,
                    [err |-> r.err, query |-> WithLink(query[b], i, r.link)])

BuilderBuild(b) ==
    LET r == FetchXMLBuilder_build(query[b])
    IN  /\ last' = [op |-> "build", builder |-> b, on |-> 0, args |-> <<>>,
                    err |-> r.err, ret |-> undefined]
        /\ xml' = r.xml
        /\ UNCHANGED <<entityName, query>>

NextBuilders ==
    \E b \in Builders :
        \/ \E names \in BuilderNames : BuilderSelect(b, names)
        \/ BuilderCount(b)
        \/ \E n \in {Num(0), Num(5)} : BuilderTop(b, n)
        \/ BuilderJoin(b)
        \/ \E i \in 1..NumLinks(query[b]) : BuilderJoinSelect(b, i, <<"revenue">>)
        \/ BuilderBuild(b)

SpecBuilders == InitBuilders /\ [][NextBuilders]_vars

(***************************************************************************)
(* SpecOrders: orderBy with the order omitted, with both orders and with   *)
(* strings that are no order, next to select                               *)
(***************************************************************************)
OrderAttributes == {"name", "createdon", ""}

OrderInputs ==
    {undefined, Some("asc"), Some("desc"), Some("ASC"), Some("descending"), Some("")}

MaxOrders == 2

InitOrders == Construct("account", "account")

NextOrders ==
    \/ /\ \E a \in OrderAttributes, o \in OrderInputs : OrderBy(a, o)
       /\ Len(IF IsDefined(query'.orders) THEN query'.orders[1] ELSE <<>>) <= MaxOrders
    \/ Len(query.attributes) = 0 /\ Select(<<"name">>)
    \/ Build

SpecOrders == InitOrders /\ [][NextOrders]_vars

(***************************************************************************)
(* SpecAliases: the calls that take an alias, with an alias that is valid, *)
(* empty, whitespace-only and omitted                                      *)
(***************************************************************************)
AliasInputs == {"a", "", " "}

OptionalAliases == {undefined} \cup {Some(a) : a \in AliasInputs}

MaxAliasItems == 2

InitAliases == Construct("account", "account")

NextAliases ==
    \/ /\ \/ \E a \in AliasInputs : SelectAs("name", a)
          \/ \E a \in OptionalAliases : Count(undefined, a)
          \/ \E a \in OptionalAliases : Sum(Some("revenue"), a)
          \/ \E a \in OptionalAliases : Avg(Some("revenue"), a)
          \/ \E a \in OptionalAliases : Min(Some("revenue"), a)
          \/ \E a \in OptionalAliases : Max(Some("revenue"), a)
          \/ \E a \in OptionalAliases :
                Join("contact", "accountid", "parentcustomerid", a, undefined)
          \/ \E i \in 1..NumLinks(query), a \in AliasInputs : JoinSelectAs(i, "name", a)
       /\ Size(query') <= MaxAliasItems
    \/ Build

SpecAliases == InitAliases /\ [][NextAliases]_vars

(***************************************************************************)
(* SpecFilters: a builder whose model holds, from the start, a filter of   *)
(* groups nested in groups, some of them empty, and links nested in links  *)
(* (the query field is protected: a concrete entity class can fill it, and *)
(* FetchXMLBuilder takes any model), followed by where, join and build     *)
(***************************************************************************)
MaxFilterDepth == 2

FilterTypes == {"and", "or"}

\* a FilterGroup
Group(type, conditions) == [type |-> type, conditions |-> conditions]

\* a FilterCondition
Leaf(attribute, value) ==
    [attribute |-> attribute, operator |-> "eq", value |-> VNum(Num(value))]

\* the groups nested up to d deep below their root: a group of leaves, or a
\* group that holds one group, alone, after a leaf or before a leaf
RECURSIVE FilterTrees(_)
FilterTrees(d) ==
    IF d = 0
    THEN {Group(t, c) : t \in FilterTypes, c \in {<<>>, <<Leaf("statecode", 0)>>}}
    ELSE LET inner == FilterTrees(d - 1)
         IN  inner \cup
             {Group(t, c) :
                 t \in FilterTypes,
                 c \in UNION {{<<g>>, <<Leaf("name", 1), g>>, <<g, Leaf("name", 2)>>} :
                                 g \in inner}}

FilterLinks ==
    {undefined,
     Some(<<LinkWith("outer", <<>>, undefined,
                     Some(<<LinkWith("nested", <<>>, undefined,
                                     Some(<<LinkWith("deep", <<>>, undefined,
                                                     undefined)>>))>>))>>),
     Some(<<LinkWith("outer", <<"inner">>,
                     Some(Group("or", <<Group("and", <<>>), Leaf("name", 1)>>)),
                     Some(<<LinkWith("nested", <<>>, Some(Group("or", <<>>)),
                                     undefined)>>))>>)}

InitFilters ==
    /\ entityName = "account"
    /\ \E filters \in {undefined} \cup {Some(g) : g \in FilterTrees(MaxFilterDepth)},
          links \in FilterLinks :
          query = [NewQuery("account") EXCEPT !.filters = filters, !.links = links]
    /\ last = [op |-> "constructor", on |-> 0, args |-> <<"account">>, err |-> NoError,
               ret |-> Some(0)]
    /\ xml = undefined

NextFilters ==
    \/ Where("name", "eq", VNum(Num(3)))
    \/ Join("contact", "accountid", "parentcustomerid", undefined, undefined)
    \/ Build

SpecFilters == InitFilters /\ [][NextFilters]_vars

(***************************************************************************)
(* Claims                                                                  *)
(***************************************************************************)
AggregateKinds == {"count", "sum", "avg", "min", "max"}

\* every aggregate call of the Entity Builder that fails leaves the model as
\* it was
C1_AggregatesAtomic ==
    \A kind \in AggregateKinds, a \in AggregateArgs :
        LET r == addAggregate(query, entityName, kind, a[1], a[2])
        IN  r.err.thrown => r.query = query

\* C1: a call on the Entity Builder or on a Join Builder that fails with a
\* ValidationError leaves the whole query model exactly as it was before the
\* call: no name of a failing select is appended, a failing page sets neither
\* page nor count, a failing where, orderBy or join creates no filter group,
\* orders list or links list.
C1_FailedCallChangesNothing ==
    /\ [][last'.err.thrown => query' = query]_vars
    /\ []C1_AggregatesAtomic

\* a select whose first name is valid and whose second is not has failed on a
\* model that holds attributes, and a later state shows them untouched
C1_Witness ==
    /\ last.op = "select" /\ last.on = 0 /\ last.err.thrown
    /\ Len(last.args[1]) = 2
    /\ ~validateAttributeName(last.args[1][1]).thrown
    /\ Len(query.attributes) > 0

\* the lists of the model, empty when not created
ConditionsOf(filters) == IF IsDefined(filters) THEN filters[1].conditions ELSE <<>>

OrdersOf(q) == IF IsDefined(q.orders) THEN q.orders[1] ELSE <<>>

LinksOf(q) == IF IsDefined(q.links) THEN q.links[1] ELSE <<>>

FieldOf(seq, f) == [i \in 1..Len(seq) |-> seq[i][f]]

\* the document lists the root's attributes, conditions, orders and links
\* one element each, in the order of the model's lists
C2_RenderedInModelOrder ==
    LET ts == Tags(build(query))
    IN  /\ ValuesOf(ElementsAt(ts, "attribute", 2), "name")
              = FieldOf(query.attributes, "name")
        /\ ValuesOf(ElementsAt(ts, "condition", 3), "attribute")
              = FieldOf(ConditionsOf(query.filters), "attribute")
        /\ ValuesOf(ElementsAt(ts, "condition", 3), "operator")
              = FieldOf(ConditionsOf(query.filters), "operator")
        /\ ValuesOf(ElementsAt(ts, "order", 2), "attribute")
              = FieldOf(OrdersOf(query), "attribute")
        /\ ValuesOf(ElementsAt(ts, "order", 2), "descending")
              = [i \in 1..Len(OrdersOf(query)) |->
                    IF OrdersOf(query)[i].order = "desc" THEN "true" ELSE "false"]
        /\ ValuesOf(ElementsAt(ts, "link-entity", 2), "name")
              = FieldOf(LinksOf(query), "name")
        /\ ValuesOf(ElementsAt(ts, "link-entity", 2), "from")
              = FieldOf(LinksOf(query), "from")

\* a successful call on the Entity Builder appends what it was given at the
\* end of the model's list, in argument order
C2_AppendsInCallOrder ==
    (last'.on = 0 /\ ~last'.err.thrown) =>
        /\ last'.op = "select" =>
              FieldOf(query'.attributes, "name")
                  = FieldOf(query.attributes, "name") \o last'.args[1]
        /\ last'.op = "selectAs" =>
              FieldOf(query'.attributes, "name")
                  = FieldOf(query.attributes, "name") \o <<last'.args[1]>>
        /\ last'.op \in AggregateKinds =>
              /\ SubSeq(query'.attributes, 1, Len(query.attributes)) = query.attributes
              /\ Len(query'.attributes) = Len(query.attributes) + 1
              /\ query'.attributes[Len(query'.attributes)].aggregate = last'.op
        /\ last'.op = "where" =>
              ConditionsOf(query'.filters)
                  = Append(ConditionsOf(query.filters),
                           [attribute |-> last'.args[1], operator |-> last'.args[2],
                            value |-> last'.args[3]])
        /\ last'.op = "orderBy" =>
              FieldOf(OrdersOf(query'), "attribute")
                  = FieldOf(OrdersOf(query), "attribute") \o <<last'.args[1]>>
        /\ last'.op = "join" =>
              FieldOf(LinksOf(query'), "name")
                  = FieldOf(LinksOf(query), "name") \o <<last'.args[1]>>

\* C2: build() emits one <attribute/> element per attribute appended by the
\* successful select, selectAs and aggregate calls, in the order of the calls
\* and of the arguments, with no reordering and no deduplication; the same
\* holds for the conditions of where, the orders of orderBy and the
\* link-entities of join.
C2_ElementsInCallOrder ==
    /\ []C2_RenderedInModelOrder
    /\ [][C2_AppendsInCallOrder]_vars

\* build() has rendered three attributes that two or more select calls
\* appended, the first name repeated as the third
C2_Witness ==
    /\ last.op = "build" /\ xml = Some(build(query))
    /\ Len(query.attributes) = 3
    /\ query.attributes[1].name = query.attributes[3].name
    /\ query.attributes[2].name # query.attributes[1].name
    /\ Len(ElementsAt(Tags(xml[1]), "attribute", 2)) = 3

\* C3: every string-valued field that build() places into an XML attribute
\* value is escaped (the root entity name, attribute names and aliases,
\* condition attributes and values, order attributes, link name, from, to and
\* alias): the document reads as tags, and no attribute value holds a raw
\* < > " ' or an & that starts no entity.
C3_AllValuesEscaped ==
    LET ts == Tags(build(query))
    IN  /\ \A i \in 1..Len(ts) : ts[i].kind # "error"
        /\ \A i \in 1..Len(ts) : \A j \in 1..Len(ts[i].attrs) :
              CleanValue(ts[i].attrs[j][2])

\* the value of the one condition of the document, as the reference
\* unescaper reads it
C4_RenderedValue == Unescape(Raw(ElementsAt(Tags(xml[1]), "condition", 3)[1], "value"))

\* C4: for every string s over the reserved characters and ordinary ones,
\* unescaping escapeXml(s) with the reference unescaper yields s exactly, also
\* when s holds the text of an entity such as &lt;: both for the function
\* and for the value attribute build() renders for a condition whose value
\* is s.
C4_EscapeRoundTrip ==
    IsDefined(query.filters) =>
        LET s == query.filters[1].conditions[1].value.s
        IN  /\ Unescape(escapeXml(s)) = s
            /\ last.op = "build" => C4_RenderedValue = s

\* build() has rendered a condition whose value is the text of an entity
C4_Witness ==
    /\ last.op = "build" /\ IsDefined(query.filters)
    /\ query.filters[1].conditions[1].value.s = "&lt;"
    /\ C4_RenderedValue = "&lt;"

\* the string form of the values of ValueInputs that are neither undefined
\* nor null
C5_StringForm(v) ==
    CASE v = VNum(Num(0)) -> "0"
      [] v = VNum(Num(-1000)) -> "-1000"
      [] v = VBool(FALSE) -> "false"
      [] v = VBool(TRUE) -> "true"
      [] v.k = "string" -> v.s

\* the <condition/> elements tags render the conditions: no value attribute
\* for undefined and null, the escaped string form for every other value
C5_ConditionsRendered(tags, conditions) ==
    /\ Len(tags) = Len(conditions)
    /\ \A i \in 1..Len(conditions) :
          IF conditions[i].value.k \in {"undefined", "null"}
          THEN ~HasKey(tags[i], "value")
          ELSE /\ HasKey(tags[i], "value")
               /\ CleanValue(Raw(tags[i], "value"))
               /\ Unescape(Raw(tags[i], "value")) = C5_StringForm(conditions[i].value)

\* C5: a condition whose value is undefined or null renders as a
\* <condition/> with no value attribute; a condition with any other value,
\* including 0, false and the empty string, renders a value attribute holding
\* the escaped string form of the value.
C5_ValueAttribute ==
    LET ts == Tags(build(query))
    IN  /\ C5_ConditionsRendered(ElementsAt(ts, "condition", 3),
                                 ConditionsOf(query.filters))
        /\ NumLinks(query) = 1 =>
              C5_ConditionsRendered(ElementsAt(ts, "condition", 4),
                                    ConditionsOf(query.links[1][1].filters))

\* build() has rendered a condition with value 0 and one with value null
C5_Witness ==
    /\ last.op = "build" /\ xml = Some(build(query))
    /\ NumConditions(query.filters) = 2
    /\ query.filters[1].conditions[1].value = VNum(Num(0))
    /\ query.filters[1].conditions[2].value = VNull
    /\ Raw(ElementsAt(Tags(xml[1]), "condition", 3)[1], "value") = "0"
    /\ ~HasKey(ElementsAt(Tags(xml[1]), "condition", 3)[2], "value")

\* the operator strings the Entity Builder's where accepts in this state
C6_Accepted ==
    {o \in OperatorInputs : ~where(query, "name", o, VUndefined).err.thrown}

\* a where with a valid attribute name, on either builder, succeeds exactly
\* when its operator is of the FilterOperator type and otherwise raises a
\* ValidationError whose field is 'operator'
C6_WhereStep ==
    (last'.op = "where" /\ ~validateAttributeName(last'.args[1]).thrown) =>
        /\ ~last'.err.thrown <=> last'.args[2] \in FilterOperator
        /\ last'.err.thrown => last'.err = ValidationError("operator")

\* C6 as stated: where succeeds exactly for the operators of the fixed set,
\* and the fixed set of accepted operators has exactly 28 members.
C6_TwentyEightOperators ==
    /\ C6_Accepted = FilterOperator
    /\ Cardinality(C6_Accepted) = 28

\* C6 as amended: where(attr, op, v) with a valid attribute name succeeds
\* exactly when op belongs to the fixed operator set and fails with a
\* ValidationError (field 'operator') for every other operator string, on the
\* Entity Builder and on the Join Builder alike; the fixed set of accepted
\* operators has exactly 29 members.
C6_TwentyNineOperators ==
    /\ [][C6_WhereStep]_vars
    /\ [](C6_Accepted = FilterOperator /\ Cardinality(C6_Accepted) = 29)

\* a where with an operator outside the set has failed on a Join Builder
\* whose parent holds a condition with the operator 'next-year'
C6_Witness ==
    /\ last.op = "where" /\ last.on = 1
    /\ last.args[2] = "bogus-operator" /\ last.err = ValidationError("operator")
    /\ NumConditions(query.filters) = 1
    /\ query.filters[1].conditions[1].operator = "next-year"

\* n is a number from 1 to 5000
C7_InRange(n) == ~n.nan /\ n.n >= 1 /\ n.n <= 5000

\* a top call succeeds exactly when its number is from 1 to 5000; a page call
\* succeeds exactly when its page number is 1 or more and its size, 50 when
\* omitted, is from 1 to 5000
C7_Step ==
    /\ last'.op = "top" => (~last'.err.thrown <=> C7_InRange(last'.args[1]))
    /\ last'.op = "page" =>
          LET p == last'.args[1]
              s == IF IsDefined(last'.args[2]) THEN last'.args[2][1] ELSE Num(50)
          IN  /\ ~last'.err.thrown <=> (~p.nan /\ p.n >= 1 /\ C7_InRange(s))
              /\ ~last'.err.thrown =>
                    query'.page = Some(p) /\ query'.count = Some(s)

\* the <fetch> element of a model with a page and a count shows both
C7_PageRendered ==
    (last.op = "build" /\ IsDefined(query.page)) =>
        LET fetch == Tags(xml[1])[1]
        IN  /\ HasKey(fetch, "page") /\ HasKey(fetch, "count")
            /\ Raw(fetch, "page") = NumToString(query.page[1])
            /\ Raw(fetch, "count") = NumToString(query.count[1])

\* C7: top(n) succeeds exactly when 1 <= n <= 5000; page(p, s) succeeds
\* exactly when p >= 1 and 1 <= s <= 5000; page(p) with the size omitted uses
\* size 50 and renders page="p" count="50".
C7_TopAndPageRanges ==
    /\ [][C7_Step]_vars
    /\ []C7_PageRendered

\* the attribute has an aggregate and an alias that is rendered
C8_AliasedAggregate(attr) ==
    "aggregate" \in DOMAIN attr /\ OptStrTruthy(AttrAlias(attr))

\* C8: an aggregate attribute that has an alias is rendered with its XML
\* attributes in the order name, aggregate, alias, for every aggregate kind.
C8_NameAggregateAlias ==
    LET elements == ElementsAt(Tags(build(query)), "attribute", 2)
    IN  \A i \in 1..Len(query.attributes) :
            C8_AliasedAggregate(query.attributes[i]) =>
                Keys(elements[i]) = <<"name", "aggregate", "alias">>

\* C9: count() called with no attribute argument appends an aggregate
\* attribute with aggregate 'count' whose name is the entity name the builder
\* is bound to, the name rendered in <entity name=...>, followed by "id".
C9_DefaultCountName ==
    (last.op = "count" /\ ~IsDefined(last.args[1]) /\ ~last.err.thrown) =>
        LET ts == Tags(build(query))
            elements == ElementsAt(ts, "attribute", 2)
            entity == ElementsAt(ts, "entity", 1)[1]
        IN  /\ query.attributes[Len(query.attributes)].aggregate = "count"
            /\ Unescape(Raw(elements[Len(elements)], "aggregate")) = "count"
            /\ Unescape(Raw(elements[Len(elements)], "name"))
                  = Unescape(Raw(entity, "name")) \o "id"

\* every <link-entity> element of the document is a child of <entity>, one
\* for each link of the root's list and in its order, and no link of the
\* root's list holds links of its own
C10_LinksAreChildrenOfEntity ==
    LET ts == Tags(build(query))
        ds == Depths(ts, 0)
    IN  /\ \A i \in 1..Len(ts) :
              (ts[i].name = "link-entity" /\ ts[i].kind \in {"open", "self"})
                  => ds[i] = 2
        /\ ValuesOf(ElementsAt(ts, "link-entity", 2), "name")
              = FieldOf(LinksOf(query), "name")
        /\ \A i \in 1..NumLinks(query) : ~IsDefined(query.links[1][i].links)

\* a successful join appends one link at the end of the root's list, whether
\* it is the first call, follows end() or follows any other call
C10_JoinStep ==
    (last'.op = "join" /\ ~last'.err.thrown) =>
        LinksOf(query') =
            Append(LinksOf(query),
                   NewLink(last'.args[1], last'.args[2], last'.args[3],
                           last'.args[4], last'.args[5]))

\* C10: each successful join appends one link to the root query's links list
\* at once, visible in build() even if nothing is called on the returned Join
\* Builder, and a join on the Entity Builder reached through end() appends a
\* sibling link: every <link-entity> element is a direct child of <entity>,
\* in join-call order, and none is nested inside another.
C10_JoinsAreSiblings ==
    /\ []C10_LinksAreChildrenOfEntity
    /\ [][C10_JoinStep]_vars

\* build() has rendered two links as children of <entity>, the first with an
\* attribute selected through its Join Builder, the second untouched
C10_Witness ==
    /\ last.op = "build" /\ xml = Some(build(query))
    /\ NumLinks(query) = 2
    /\ Len(query.links[1][1].attributes) = 1
    /\ Len(query.links[1][2].attributes) = 0
    /\ Len(ElementsAt(Tags(xml[1]), "link-entity", 2)) = 2
    /\ Len(ElementsAt(Tags(xml[1]), "attribute", 3)) = 1

\* a build() step leaves the model as it was and returns the rendering of
\* that model; a build() that follows a build() returns the same string
C11_BuildStep ==
    last'.op = "build" =>
        /\ query' = query
        /\ xml' = Some(build(query))
        /\ last.op = "build" => xml' = xml

\* C11: calling build() twice on the same builder with no mutating call in
\* between returns identical strings, for every model reachable through
\* builder calls; build() itself changes nothing in the query model.
C11_BuildIsRepeatable ==
    /\ [][C11_BuildStep]_vars
    /\ [](last.op = "build" => xml = Some(build(query)))

\* build() has returned the document of a model of three items with a link;
\* the build() step that is enabled in this state leads back to it
C11_Witness ==
    /\ last.op = "build" /\ IsDefined(xml)
    /\ Size(query) = 3 /\ NumLinks(query) = 1
    /\ Len(Tags(xml[1])) > 4

\* the document of a builder for entity on which nothing was called
C12_EmptyDocument(entity) ==
    "<fetch><entity name=\"" \o entity \o "\"></entity></fetch>"

\* a build() that follows the constructor at once returns the empty document
\* of the entity name given to the constructor
C12_FirstBuildStep ==
    (last.op = "constructor" /\ last'.op = "build") =>
        xml' = Some(C12_EmptyDocument(last.args[1]))

\* C12: a builder constructed for entity name E on which no other call was
\* made builds to exactly <fetch><entity name="E"></entity></fetch>: no fetch
\* attributes, no child elements, and an explicit closing tag for the entity
\* element.
C12_EmptyBuilderDocument ==
    /\ [][C12_FirstBuildStep]_vars
    /\ [](last.op = "constructor" =>
             LET ts == Tags(build(query))
             IN  /\ build(query) = C12_EmptyDocument(query.entity)
                 /\ Len(ts) = 4
                 /\ ts[1].name = "fetch" /\ ts[1].attrs = <<>>
                 /\ ts[2].name = "entity" /\ ts[2].kind = "open"
                 /\ ts[3].kind = "close" /\ ts[4].kind = "close")

\* build() on a builder for "contact" with nothing called has returned the
\* empty document
C12_Witness ==
    /\ last.op = "build" /\ query = NewQuery("contact")
    /\ xml = Some("<fetch><entity name=\"contact\"></entity></fetch>")

\* the mutating methods of the Entity Builder and those of the Join Builder
C13_EntityMutators ==
    {"select", "selectAs", "count", "sum", "avg", "min", "max", "where",
     "orderBy", "top", "page", "distinct", "groupBy"}

C13_JoinMutators == {"select", "selectAs", "where"}

\* a successful mutating call returns the builder it was made on
C13_Step ==
    /\ (last'.on = 0 /\ last'.op \in C13_EntityMutators /\ ~last'.err.thrown)
          => last'.ret = Some(0)
    /\ (last'.on > 0 /\ last'.op \in C13_JoinMutators /\ ~last'.err.thrown)
          => last'.ret = Some(last'.on)

\* C13: every successful mutating call on an Entity Builder (select,
\* selectAs, count, sum, avg, min, max, where, orderBy, top, page, distinct,
\* groupBy) returns that same Entity Builder instance, and every successful
\* select, selectAs and where on a Join Builder returns that same Join
\* Builder instance; no call returns a copy or a different builder.
C13_ReturnsSameBuilder == [][C13_Step]_vars

\* a where on the Join Builder of the second link has returned that Join
\* Builder
C13_Witness ==
    /\ last.op = "where" /\ last.on = 2 /\ ~last.err.thrown
    /\ last.ret = Some(2)
    /\ NumLinks(query) = 2

\* the fetch options in the order of the claim
C14_Order == <<"distinct", "top", "page", "count">>

\* the position of key k in C14_Order
C14_Position(k) == CHOOSE i \in 1..Len(C14_Order) : C14_Order[i] = k

\* the option k of the model is set to a value other than NaN
C14_IsSet(q, k) ==
    IF k = "distinct" THEN IsDefined(q.distinct) ELSE IsDefined(q[k]) /\ ~q[k][1].nan

\* C14: the attributes of the root <fetch> element are emitted in the fixed
\* order distinct, top, page, count, each only when set, whatever the order
\* in which distinct(), top() and page() were called; distinct renders as
\* distinct="true".
C14_FetchAttributeOrder ==
    LET fetch == Tags(build(query))[1]
        keys == Keys(fetch)
    IN  /\ fetch.name = "fetch"
        /\ \A i \in 1..Len(keys) :
              /\ keys[i] \in {C14_Order[j] : j \in 1..Len(C14_Order)}
              /\ IsDefined(query[keys[i]])
        /\ \A i \in 1..Len(keys), j \in 1..Len(keys) :
              i < j => C14_Position(keys[i]) < C14_Position(keys[j])
        /\ \A j \in 1..Len(C14_Order) :
              C14_IsSet(query, C14_Order[j]) => HasKey(fetch, C14_Order[j])
        /\ HasKey(fetch, "distinct") => Raw(fetch, "distinct") = "true"
        /\ HasKey(fetch, "top") => Raw(fetch, "top") = NumToString(query.top[1])

\* build() has rendered a model with all four options set
C14_Witness ==
    /\ last.op = "build" /\ IsDefined(xml)
    /\ query.top = Some(Num(10)) /\ query.page = Some(Num(2))
    /\ query.count = Some(Num(50)) /\ query.distinct = Some(TRUE)
    /\ Keys(Tags(xml[1])[1]) = <<"distinct", "top", "page", "count">>

\* the indexes of the child elements of the element opened by tag i
C15_Children(ts, ds, i) ==
    SelectSeq([j \in 1..Len(ts) |-> j],
              LAMBDA j : /\ j > i
                         /\ ds[j] = ds[i] + 1
                         /\ ts[j].kind \in {"open", "self"}
                         /\ \A k \in (i + 1)..(j - 1) : ds[k] > ds[i])

\* n times the name
C15_Times(name, n) == [i \in 1..n |-> name]

\* the names of the elements at the indexes idx
C15_Names(ts, idx) == [k \in 1..Len(idx) |-> ts[idx[k]].name]

\* the <link-entity> opened by tag i holds the attributes of link, then its
\* filter, then its links, each of them ordered in the same way
RECURSIVE C15_LinkOrdered(_, _, _, _)
C15_LinkOrdered(ts, ds, i, link) ==
    LET children == C15_Children(ts, ds, i)
        n == Len(link.attributes)
        f == IF IsDefined(link.filters) THEN 1 ELSE 0
        nested == IF IsDefined(link.links) THEN link.links[1] ELSE <<>>
    IN  /\ ts[i].name = "link-entity"
        /\ C15_Names(ts, children)
              = C15_Times("attribute", n) \o C15_Times("filter", f)
                \o C15_Times("link-entity", Len(nested))
        /\ \A j \in 1..Len(nested) :
              C15_LinkOrdered(ts, ds, children[n + f + j], nested[j])

\* C15: the children of a rendered element follow a fixed structural order
\* that does not depend on the order of the builder calls between
\* categories: inside <entity> all attributes, then the filter, then all
\* orders, then all link-entities; inside each <link-entity> all its
\* attributes, then its filter, then its nested link-entities.
C15_StructuralOrder ==
    LET ts == Tags(build(query))
        ds == Depths(ts, 0)
        children == C15_Children(ts, ds, 2)
        n == Len(query.attributes)
        f == IF IsDefined(query.filters) THEN 1 ELSE 0
        o == Len(OrdersOf(query))
        links == LinksOf(query)
    IN  /\ ts[2].name = "entity"
        /\ C15_Names(ts, children)
              = C15_Times("attribute", n) \o C15_Times("filter", f)
                \o C15_Times("order", o) \o C15_Times("link-entity", Len(links))
        /\ \A j \in 1..Len(links) :
              C15_LinkOrdered(ts, ds, children[n + f + o + j], links[j])

\* build() has rendered a root with an attribute and a filter, appended by
\* select and where in either order, before its link, and inside that link a
\* link whose children are an attribute, a filter and a link, in that order
C15_Witness ==
    /\ last.op = "build" /\ IsDefined(xml)
    /\ Len(query.attributes) = 1 /\ IsDefined(query.filters)
    /\ NumLinks(query) = 1 /\ IsDefined(query.links[1][1].links)
    /\ LET ts == Tags(xml[1])
           ds == Depths(ts, 0)
           outer == C15_Children(ts, ds, 2)[3]
           nested == C15_Children(ts, ds, outer)[1]
       IN  /\ C15_Names(ts, C15_Children(ts, ds, 2))
                 = <<"attribute", "filter", "link-entity">>
           /\ C15_Names(ts, C15_Children(ts, ds, outer)) = <<"link-entity">>
           /\ C15_Names(ts, C15_Children(ts, ds, nested))
                 = <<"attribute", "filter", "link-entity">>

\* a filter is absent or one 'and' group of one or more leaf conditions
C16_WellFormed(filters) ==
    IsDefined(filters) =>
        /\ DOMAIN filters[1] = {"type", "conditions"}
        /\ filters[1].type = "and"
        /\ Len(filters[1].conditions) >= 1
        /\ \A i \in 1..Len(filters[1].conditions) :
              DOMAIN filters[1].conditions[i] = {"attribute", "operator", "value"}

\* a successful where on the builder of a filter appends its condition to
\* the group, which it creates if absent; any other call leaves the filter
\* as it is
C16_Grows(old, new, builder) ==
    IF last'.op = "where" /\ last'.on = builder /\ ~last'.err.thrown
    THEN /\ IsDefined(new) /\ new[1].type = "and"
         /\ new[1].conditions
               = Append(ConditionsOf(old),
                        [attribute |-> last'.args[1], operator |-> last'.args[2],
                         value |-> last'.args[3]])
    ELSE new = old

C16_Step ==
    /\ C16_Grows(query.filters, query'.filters, 0)
    /\ \A i \in 1..NumLinks(query) :
          C16_Grows(query.links[1][i].filters, query'.links[1][i].filters, i)
    /\ \A i \in (NumLinks(query) + 1)..NumLinks(query') :
          ~IsDefined(query'.links[1][i].filters)

\* C16: in every state reachable through fluent calls, the filter of the root
\* query, and the filter of every link, is either absent or a single group of
\* type 'and' holding at least one entry, all of them leaf conditions in
\* where-call order and none a nested group; the group is created by the
\* first successful where on that builder and never replaced afterwards.
C16_SingleAndGroup ==
    /\ [](/\ C16_WellFormed(query.filters)
          /\ \A i \in 1..NumLinks(query) : C16_WellFormed(query.links[1][i].filters))
    /\ [][C16_Step]_vars

\* the second where on a Join Builder has appended to the group the first
\* one created, next to a root that holds no filter
C16_Witness ==
    /\ last.op = "where" /\ last.on = 1 /\ ~last.err.thrown
    /\ ~IsDefined(query.filters)
    /\ NumConditions(query.links[1][1].filters) = 2
    /\ query.links[1][1].filters[1].conditions[1].operator = "ne"
    /\ query.links[1][1].filters[1].conditions[2].operator = "eq"

\* the empty name and the whitespace-only name
C17_BlankNames == {"", " "}

\* a groupBy step changes neither the model nor the document build() would
\* return, and raises a ValidationError exactly for a blank name
C17_Step ==
    last'.op = "groupBy" =>
        /\ query' = query
        /\ build(query') = build(query)
        /\ last'.err.thrown <=> last'.args[1] \in C17_BlankNames
        /\ last'.err.thrown =>
              last'.err.name = "Validation error" /\ last'.err.code = "VALIDATION_ERROR"

\* C17: groupBy(attribute) with a valid attribute name leaves the query model
\* unchanged, so the output of build() is the same with and without the call
\* at any position in the chain; with an empty or whitespace-only name it
\* fails with a ValidationError.
C17_GroupByHasNoEffect == [][C17_Step]_vars

\* a groupBy with a valid name has succeeded on a model of three items
C17_Witness ==
    /\ last.op = "groupBy" /\ ~last.err.thrown /\ last.args[1] = "name"
    /\ Size(query) = 3 /\ Len(query.attributes) > 0

\* an end() step returns the Entity Builder and changes nothing in the model
C18_EndStep ==
    last'.op = "end" =>
        /\ last'.ret = Some(0)
        /\ ~last'.err.thrown
        /\ query' = query

\* a successful select that follows end() is made on the builder end()
\* returned and appends to the attributes of the root, not to those of a link
C18_AfterEndStep ==
    (last.op = "end" /\ last'.op = "select" /\ last'.on = last.ret[1]
                     /\ ~last'.err.thrown) =>
        /\ query'.attributes = query.attributes \o NewAttributes(last'.args[1])
        /\ query'.links = query.links

\* C18: end() on a Join Builder returns the very Entity Builder instance
\* whose join call created it, changes nothing in the model, and may be
\* called any number of times; calls made on the returned builder act on the
\* root query, not on the link.
C18_EndReturnsParent ==
    /\ [][C18_EndStep /\ C18_AfterEndStep]_vars
    /\ [](\A i \in 1..NumLinks(query) : ENABLED End(i))

\* end() has been called on the Join Builder of a link that holds an
\* attribute, and has returned the Entity Builder
C18_Witness ==
    /\ last.op = "end" /\ last.on = 1 /\ last.ret = Some(0)
    /\ NumLinks(query) = 1
    /\ Len(query.links[1][1].attributes) = 1
    /\ Len(query.attributes) = 1

\* C19: in every reachable state of an Entity Builder, the root query's
\* entity name is a non-empty, non-whitespace-only string: an empty or
\* whitespace-only entity name is rejected by the constructor with a
\* ValidationError instead of being rendered as <entity name="">.
C19_EntityNameNotBlank ==
    /\ query.entity \notin {"", " "}
    /\ Raw(ElementsAt(Tags(build(query)), "entity", 1)[1], "name") \notin {"", " "}

\* the string s holds the string part
C20_Contains(s, part) ==
    \E i \in 1..(Len(s) - Len(part) + 1) : SubSeq(s, i, i + Len(part) - 1) = part

\* the conditions of the model: those of the root and those of its links
C20_Conditions(q) ==
    {ConditionsOf(q.filters)[i] : i \in 1..NumConditions(q.filters)}
    \cup UNION {{ConditionsOf(LinksOf(q)[l].filters)[i] :
                    i \in 1..NumConditions(LinksOf(q)[l].filters)} :
                l \in 1..NumLinks(q)}

\* the values toString() of the conditions of the model raises
C20_Causes(q) ==
    {c.value.toString : c \in {d \in C20_Conditions(q) : d.value.k = "object"}}

\* C20: any failure raised while rendering reaches the caller of build() as a
\* QueryBuildError (code QUERY_BUILD_ERROR) whose message contains the
\* message of the underlying cause, and never as the raw cause; in that case
\* build() returns no string at all, not a partial document.
C20_WrappedAsQueryBuildError ==
    (last.op = "build" /\ C20_Causes(query) # {}) =>
        /\ last.err.thrown
        /\ last.err.name = "QueryBuild error"
        /\ last.err.code = "QUERY_BUILD_ERROR"
        /\ (\A cause \in C20_Causes(query) : cause.type = "Error") =>
              \E cause \in C20_Causes(query) :
                  C20_Contains(last.err.message, cause.message)
        /\ xml = undefined

\* the string is empty or holds blanks only
C21_Blank(s) == \A i \in 1..Len(s) : CharAt(s, i) = " "

\* the fields a ValidationError of a builder method names
C21_Fields == {"attribute", "entityName", "operator", "order", "top", "page", "count"}

\* the field the claim gives for a failed call of op with arguments args:
\* the input that failed, the first one when several did
C21_Field(op, args) ==
    CASE op \in {"select", "groupBy"} -> "attribute"
      [] op \in {"selectAs", "count", "sum", "avg", "min", "max"} -> "attribute"
      [] op = "where" -> IF C21_Blank(args[1]) THEN "attribute" ELSE "operator"
      [] op = "orderBy" -> IF C21_Blank(args[1]) THEN "attribute" ELSE "order"
      [] op = "top" -> "top"
      [] op = "page" -> IF ~args[1].nan /\ args[1].n < 1 THEN "page" ELSE "count"
      [] op = "join" -> IF C21_Blank(args[1]) THEN "entityName" ELSE "attribute"

\* a call that raises, raises a ValidationError as the Validator makes it,
\* with the field of the input that failed
C21_Step ==
    (last'.err.thrown /\ last'.op # "build") =>
        /\ last'.err.name = "Validation error"
        /\ last'.err.code = "VALIDATION_ERROR"
        /\ DOMAIN last'.err = DOMAIN ValidationError("")
        /\ last'.err.field \in C21_Fields
        /\ last'.err.field = C21_Field(last'.op, last'.args)

\* a call with an empty name, an operator or an order outside its set, a top
\* outside 1..5000, a page number below 1 or a size outside 1..5000 raises
C21_Raises ==
    /\ (last'.op \in {"groupBy", "where", "orderBy", "selectAs"}
            /\ C21_Blank(last'.args[1])) => last'.err.thrown
    /\ (last'.op = "select" /\ \E i \in 1..Len(last'.args[1]) :
            C21_Blank(last'.args[1][i])) => last'.err.thrown
    /\ (last'.op = "where" /\ last'.args[2] \notin FilterOperator) => last'.err.thrown
    /\ (last'.op = "orderBy" /\ IsDefined(last'.args[2])
            /\ last'.args[2][1] \notin {"asc", "desc"}) => last'.err.thrown
    /\ (last'.op = "top" /\ ~last'.args[1].nan
            /\ (last'.args[1].n < 1 \/ last'.args[1].n > 5000)) => last'.err.thrown
    /\ (last'.op = "page" /\ ~last'.args[1].nan /\ last'.args[1].n < 1)
          => last'.err.thrown
    /\ (last'.op = "page" /\ IsDefined(last'.args[2]) /\ ~last'.args[2][1].nan
            /\ (last'.args[2][1].n < 1 \/ last'.args[2][1].n > 5000))
          => last'.err.thrown
    /\ (last'.op = "join" /\ \E i \in 1..3 : C21_Blank(last'.args[i]))
          => last'.err.thrown

\* C21: a validation failure inside a builder method reaches the caller as
\* the ValidationError raised by the Validator, not wrapped and not replaced,
\* and its field names the failed input: 'attribute' for an empty attribute
\* name, 'entityName' for an empty joined entity name, 'operator', 'order',
\* 'top', 'page' for a page number below 1 and 'count' for a page size out of
\* range; when both arguments of page are invalid the reported field is
\* 'page'.
C21_FieldNamesFailedInput == [][C21_Step /\ C21_Raises]_vars

\* a page call whose number is below 1 and whose size is out of range has
\* raised a ValidationError with the field 'page', on a builder with a link
C21_Witness ==
    /\ last.op = "page" /\ last.args = <<Num(0), Some(Num(5001))>>
    /\ last.err = ValidationError("page")
    /\ NumLinks(query) = 1

\* the model a builder that is alone reaches from model q by the call of op
\* with arguments args on itself (i = 0) or on the Join Builder of its link i
C22_Alone(q, self, op, i, args) ==
    CASE op = "select" /\ i = 0 -> select(q, args[1]).query
      [] op = "select" /\ i > 0 ->
            WithLink(q, i, JoinBuilder_select(q.links[1][i], args[1]).link)
      [] op = "count" -> count(q, self, args[1], args[2]).query
      [] op = "top" -> top(q, args[1]).query
      [] op = "join" -> join(q, args[1], args[2], args[3], args[4], args[5]).query
      [] op = "build" -> q

\* a call on one builder changes the model of that builder as it would if the
\* builder were alone, and leaves the model of every other builder as it is;
\* build() on a builder returns the rendering of its own model
C22_Step ==
    \A b \in Builders :
        IF last'.builder = b
        THEN /\ query'[b] = C22_Alone(query[b], entityName[b], last'.op, last'.on,
                                      last'.args)
             /\ last'.op = "build" => xml' = Some(build(query[b]))
        ELSE query'[b] = query[b]

\* C22: two Entity Builder instances never share model state: for any
\* interleaving of calls on builders A and B (also when both are bound to the
\* same entity name), build() on A equals the output A would give if the
\* calls on B had never been made.
C22_BuildersAreIndependent ==
    /\ [][C22_Step]_vars
    /\ [](last.op = "build" => xml = Some(build(query[last.builder])))

\* build() on the first of two builders for the same entity name has returned
\* the document of its one attribute, while the second holds a link with an
\* attribute of another name
C22_Witness ==
    /\ last.op = "build" /\ last.builder = 1
    /\ entityName[1] = entityName[2] /\ query[1].entity = query[2].entity
    /\ FieldOf(query[1].attributes, "name") = <<"name">>
    /\ query[2].attributes = <<>> /\ NumLinks(query[2]) = 1
    /\ FieldOf(query[2].links[1][1].attributes, "name") = <<"revenue">>
    /\ xml = Some("<fetch><entity name=\"" \o query[1].entity \o "\">"
                  \o "<attribute name=\"name\"/></entity></fetch>")

\* the fields of a link other than its attributes and its filter
C23_LinkFrame(link) ==
    <<link.name, link.from, link.to, link.alias, link.linkType, link.links>>

\* the fields of the root query other than its links
C23_RootFrame(q) ==
    <<q.entity, q.attributes, q.filters, q.orders, q.distinct, q.top, q.page, q.count>>

\* a select, selectAs or where step on the Join Builder of link i leaves the
\* root and every other link as they are and changes, of link i, only the
\* attributes (select, selectAs) or only the filter (where)
C23_Step ==
    (last'.on > 0 /\ last'.op \in {"select", "selectAs", "where"}) =>
        LET i == last'.on
        IN  /\ C23_RootFrame(query') = C23_RootFrame(query)
            /\ NumLinks(query') = NumLinks(query)
            /\ \A j \in 1..NumLinks(query) :
                  j # i => query'.links[1][j] = query.links[1][j]
            /\ C23_LinkFrame(query'.links[1][i]) = C23_LinkFrame(query.links[1][i])
            /\ last'.op = "where" =>
                  query'.links[1][i].attributes = query.links[1][i].attributes
            /\ last'.op \in {"select", "selectAs"} =>
                  query'.links[1][i].filters = query.links[1][i].filters
            /\ ~last'.err.thrown => query'.links[1][i] # query.links[1][i]

\* C23: select, selectAs and where on a Join Builder change only the
\* attributes and the filter of the one link that builder was created for:
\* the root query's attributes, filter, orders and fetch options and every
\* other link are unchanged, for any interleaving of calls on several Join
\* Builders obtained from the same Entity Builder.
C23_JoinBuilderWritesItsLink == [][C23_Step]_vars

\* a where on the Join Builder of the first link has succeeded after the
\* second join: the first link holds the condition, the second link and the
\* root hold nothing
C23_Witness ==
    /\ last.op = "where" /\ last.on = 1 /\ ~last.err.thrown
    /\ NumLinks(query) = 2
    /\ NumConditions(query.links[1][1].filters) = 1
    /\ query.links[1][2] = NewLink("contact", "accountid", "parentcustomerid",
                                   undefined, undefined)
    /\ C23_RootFrame(query) = C23_RootFrame(NewQuery("account"))

\* the order an orderBy call with the argument order records
C24_Recorded(order) == IF IsDefined(order) THEN order[1] ELSE "asc"

\* an orderBy step with a valid attribute name succeeds exactly when its
\* order is omitted, 'asc' or 'desc', and then appends the attribute with the
\* order given, 'asc' when omitted; otherwise it raises a ValidationError and
\* leaves the orders list as it is, absent if it was absent
C24_Step ==
    (last'.op = "orderBy" /\ ~C21_Blank(last'.args[1])) =>
        IF last'.args[2] \in {undefined, Some("asc"), Some("desc")}
        THEN /\ ~last'.err.thrown
             /\ IsDefined(query'.orders)
             /\ query'.orders[1]
                   = Append(OrdersOf(query),
                            [attribute |-> last'.args[1],
                             order |-> C24_Recorded(last'.args[2])])
        ELSE /\ last'.err = ValidationError("order")
             /\ query'.orders = query.orders

\* the document holds one <order/> element per order of the model, in the
\* order of the list, with the XML attributes attribute and descending
C24_Rendered ==
    LET elements == ElementsAt(Tags(build(query)), "order", 2)
        orders == OrdersOf(query)
    IN  /\ Len(elements) = Len(orders)
        /\ \A i \in 1..Len(orders) :
              /\ elements[i].kind = "self"
              /\ Keys(elements[i]) = <<"attribute", "descending">>
              /\ Unescape(Raw(elements[i], "attribute")) = orders[i].attribute
              /\ orders[i].order \in {"asc", "desc"}
              /\ Raw(elements[i], "descending")
                    = (IF orders[i].order = "asc" THEN "false" ELSE "true")

\* C24: orderBy(attribute) with the order omitted records order 'asc'; each
\* order renders as <order attribute="A" descending="false"/> for asc and
\* descending="true" for desc, in orderBy-call order; an order value outside
\* {asc, desc} fails with a ValidationError and the orders list is neither
\* created nor extended.
C24_OrderByRecordsAndRenders ==
    /\ [][C24_Step]_vars
    /\ []C24_Rendered
    /\ [](~IsDefined(query.orders) \/ Len(query.orders[1]) >= 1)

\* an orderBy with the order omitted has appended 'asc' after a 'desc' order,
\* and the document shows both in that order
C24_Witness ==
    /\ last.op = "orderBy" /\ last.args = <<"name", undefined>> /\ ~last.err.thrown
    /\ query.orders = Some(<<[attribute |-> "createdon", order |-> "desc"],
                             [attribute |-> "name", order |-> "asc"]>>)
    /\ build(query) = "<fetch><entity name=\"account\">"
                      \o "<order attribute=\"createdon\" descending=\"true\"/>"
                      \o "<order attribute=\"name\" descending=\"false\"/>"
                      \o "</entity></fetch>"

\* an aggregate step with the name omitted is a count that appends the
\* default name; an aggregate step with an empty or whitespace-only name
\* raises a ValidationError and appends nothing
C25_Step ==
    last'.op \in AggregateKinds =>
        /\ ~IsDefined(last'.args[1]) =>
              /\ last'.op = "count" /\ ~last'.err.thrown
              /\ query'.attributes
                    = Append(query.attributes,
                             [name |-> entityName \o "id", alias |-> last'.args[2],
                              aggregate |-> "count"])
        /\ (IsDefined(last'.args[1]) /\ C21_Blank(last'.args[1][1])) =>
              /\ last'.err = ValidationError("attribute")
              /\ query'.attributes = query.attributes
        /\ (IsDefined(last'.args[1]) /\ ~last'.err.thrown) =>
              query'.attributes[Len(query'.attributes)].name = last'.args[1][1]

\* C25: the default name entity name + "id" is used only by count() when its
\* name argument is omitted: sum, avg, min and max (and count given an
\* explicit name) called with an empty-string attribute name fail with a
\* ValidationError and append nothing, they never substitute the default
\* name.
C25_DefaultNameOnlyWhenOmitted == [][C25_Step]_vars

\* the fetch options top, page and count of the model
C26_Paging(q) == <<q.top, q.page, q.count>>

\* a successful top sets top to its argument and a successful page sets page
\* and count to its arguments (count to 50 when the size is omitted), each
\* leaving the other options as they are; every other step, a failed top or
\* page included, leaves top, page and count as they are; distinct, once
\* set, stays set
C26_Step ==
    /\ IF last'.op = "top" /\ ~last'.err.thrown
       THEN C26_Paging(query') = <<Some(last'.args[1]), query.page, query.count>>
       ELSE IF last'.op = "page" /\ ~last'.err.thrown
       THEN C26_Paging(query')
               = <<query.top, Some(last'.args[1]),
                   IF IsDefined(last'.args[2]) THEN last'.args[2]
                   ELSE Some(Num(50))>>
       ELSE C26_Paging(query') = C26_Paging(query)
    /\ IsDefined(query.distinct) => query'.distinct = Some(TRUE)
    /\ last'.op = "distinct" => query'.distinct = Some(TRUE)
    /\ last'.op # "distinct" => query'.distinct = query.distinct

\* C26: after any sequence of top and page calls, the model's top equals the
\* argument of the last successful top call (absent if there was none), and
\* page and count equal the two arguments of the last successful page call; a
\* failed top or page call in between does not clear or alter the values set
\* earlier, and distinct, once set, stays set.
C26_LastCallWins ==
    /\ [][C26_Step]_vars
    /\ [](last.op = "constructor" =>
             /\ C26_Paging(query) = <<undefined, undefined, undefined>>
             /\ query.distinct = undefined)
    /\ []((last.op = "top" /\ ~last.err.thrown) => query.top = Some(last.args[1]))
    /\ []((last.op = "page" /\ ~last.err.thrown) => query.page = Some(last.args[1]))

\* a top that failed has left the top, the page, the count and the distinct
\* that earlier calls set
C26_Witness ==
    /\ last.op = "top" /\ last.args = <<Num(5001)>> /\ last.err.thrown
    /\ C26_Paging(query) = <<Some(Num(10)), Some(Num(2)), Some(Num(5000))>>
    /\ query.distinct = Some(TRUE)

\* the string holds something other than blanks
C27_Name(s) == \E i \in 1..Len(s) : CharAt(s, i) # " "

\* the names of the attributes are not blank and their aggregates are of the
\* AggregateType type
C27_Attributes(attributes) ==
    \A i \in 1..Len(attributes) :
        /\ C27_Name(attributes[i].name)
        /\ "aggregate" \in DOMAIN attributes[i] =>
              attributes[i].aggregate
                  \in {"count", "countcolumn", "sum", "avg", "min", "max"}

\* the attributes of the conditions are not blank and their operators are of
\* the FilterOperator type
C27_Conditions(filters) ==
    \A i \in 1..NumConditions(filters) :
        /\ C27_Name(filters[1].conditions[i].attribute)
        /\ filters[1].conditions[i].operator \in FilterOperator

\* every name, operator, order and aggregate stored in the model is valid
C27_ModelValid(q) ==
    /\ C27_Attributes(q.attributes)
    /\ C27_Conditions(q.filters)
    /\ \A i \in 1..Len(OrdersOf(q)) :
          /\ C27_Name(OrdersOf(q)[i].attribute)
          /\ OrdersOf(q)[i].order \in {"asc", "desc"}
    /\ \A i \in 1..NumLinks(q) :
          /\ C27_Name(q.links[1][i].name)
          /\ C27_Name(q.links[1][i].from)
          /\ C27_Name(q.links[1][i].to)
          /\ C27_Attributes(q.links[1][i].attributes)
          /\ C27_Conditions(q.links[1][i].filters)

\* C27: in every model reachable through builder calls, every name of a
\* selected or aggregated attribute, every condition attribute, every order
\* attribute and every link name, from and to is a non-empty,
\* non-whitespace-only string, and every stored operator, order and aggregate
\* belongs to its fixed enumerated set; so build() on such a model never
\* raises a ValidationError.
C27_StoredNamesAreValid ==
    /\ C27_ModelValid(query)
    /\ FetchXMLBuilder_build(query).err.name # "Validation error"
    /\ last.op = "build" => (~last.err.thrown /\ IsDefined(xml))

\* a join with a whitespace-only from has failed on a model that holds a
\* link, which build() renders
C27_Witness ==
    /\ last.op = "join" /\ last.args[2] = " " /\ last.err.thrown
    /\ NumLinks(query) = 1
    /\ IsDefined(FetchXMLBuilder_build(query).xml)

\* an alias, where the model holds one, is a non-empty string
C28_Alias(alias) == IsDefined(alias) => alias[1] # ""

C28_Attributes(attributes) ==
    \A i \in 1..Len(attributes) : C28_Alias(AttrAlias(attributes[i]))

\* a call that passes an empty alias raises a ValidationError and stores
\* nothing
C28_Step ==
    /\ (last'.op = "selectAs" /\ last'.args[2] = "")
          => (last'.err.name = "Validation error" /\ query' = query)
    /\ (last'.op \in AggregateKinds /\ last'.args[2] = Some(""))
          => (last'.err.name = "Validation error" /\ query' = query)
    /\ (last'.op = "join" /\ last'.args[4] = Some(""))
          => (last'.err.name = "Validation error" /\ query' = query)

\* C28: every alias stored in the model, on a selected attribute, on an
\* aggregate attribute or on a link, is a non-empty string: a call that
\* passes an empty alias (selectAs(name, ''), sum(name, ''), join(entity,
\* from, to, '')) fails with a ValidationError rather than storing the empty
\* alias.
C28_AliasesAreNotEmpty ==
    /\ [](/\ C28_Attributes(query.attributes)
          /\ \A i \in 1..NumLinks(query) :
                /\ C28_Alias(query.links[1][i].alias)
                /\ C28_Attributes(query.links[1][i].attributes))
    /\ [][C28_Step]_vars

\* the part of C28 about selectAs, on both builders: an empty or
\* whitespace-only alias raises a ValidationError and stores nothing
C28_SelectAsRejectsEmptyAlias ==
    [][(last'.op = "selectAs" /\ last'.args[2] \in {"", " "})
          => (last'.err = ValidationError("attribute") /\ query' = query)]_vars

\* the index of the tag that closes the element opened by tag i: the first
\* later tag at the depth of tag i
C29_Close(ds, i) == CHOOSE j \in (i + 1)..Len(ds) :
                        ds[j] = ds[i] /\ \A k \in (i + 1)..(j - 1) : ds[k] > ds[i]

\* tag i opens a <filter type="T"> element for the group, closed by
\* </filter>, whose children are the entries of the group in list order: a
\* <condition/> leaf for a condition, a <filter> rendered by the same rule
\* for a group
RECURSIVE C29_FilterRendered(_, _, _, _)
C29_FilterRendered(ts, ds, i, group) ==
    LET children == C15_Children(ts, ds, i)
    IN  /\ ts[i].name = "filter" /\ ts[i].kind = "open"
        /\ ts[i].attrs = <<<<"type", group.type>>>>
        /\ ts[C29_Close(ds, i)].kind = "close" /\ ts[C29_Close(ds, i)].name = "filter"
        /\ Len(children) = Len(group.conditions)
        /\ group.conditions = <<>> => C29_Close(ds, i) = i + 1
        /\ \A k \in 1..Len(children) :
              IF "type" \in DOMAIN group.conditions[k]
              THEN C29_FilterRendered(ts, ds, children[k], group.conditions[k])
              ELSE /\ ts[children[k]].name = "condition"
                   /\ ts[children[k]].kind = "self"
                   /\ Raw(ts[children[k]], "attribute") = group.conditions[k].attribute
                   /\ Raw(ts[children[k]], "value")
                         = NumToString(group.conditions[k].value.n)

\* tag i opens the <link-entity> of the link: its filter, if any, is rendered
\* as a filter group and its links as <link-entity> children by the same rule
RECURSIVE C29_LinkRendered(_, _, _, _)
C29_LinkRendered(ts, ds, i, link) ==
    LET children == C15_Children(ts, ds, i)
        n == Len(link.attributes)
        f == IF IsDefined(link.filters) THEN 1 ELSE 0
        nested == IF IsDefined(link.links) THEN link.links[1] ELSE <<>>
    IN  /\ ts[i].name = "link-entity" /\ ts[i].kind = "open"
        /\ Raw(ts[i], "name") = link.name
        /\ ts[C29_Close(ds, i)].name = "link-entity"
        /\ Len(children) = n + f + Len(nested)
        /\ IsDefined(link.filters) =>
              C29_FilterRendered(ts, ds, children[n + 1], link.filters[1])
        /\ \A j \in 1..Len(nested) :
              C29_LinkRendered(ts, ds, children[n + f + j], nested[j])

\* C29: rendering a filter group emits <filter type="T">, then its entries in
\* list order, then </filter>, where an entry that is a condition becomes a
\* <condition/> leaf and an entry that is a group becomes a nested <filter>
\* rendered by the same rule to any depth; a group with zero entries renders
\* as the well-formed empty element <filter type="T"></filter>, and the same
\* recursion renders a link's nested links as nested <link-entity> elements.
C29_FilterGroupsRendered ==
    LET ts == Tags(build(query))
        ds == Depths(ts, 0)
        children == C15_Children(ts, ds, 2)
        f == IF IsDefined(query.filters) THEN 1 ELSE 0
    IN  /\ \A i \in 1..Len(ts) : ts[i].kind # "error"
        /\ Len(children) = f + NumLinks(query)
        /\ IsDefined(query.filters) =>
              C29_FilterRendered(ts, ds, children[1], query.filters[1])
        /\ \A j \in 1..NumLinks(query) :
              C29_LinkRendered(ts, ds, children[f + j], query.links[1][j])
        /\ \A t \in FilterTypes :
              buildFilter(Group(t, <<>>)) = "<filter type=\"" \o t \o "\"></filter>"

\* build() has rendered a filter whose group holds a group that holds an
\* empty group, three <filter> elements deep, followed by the condition of a
\* where, and links three deep
C29_Witness ==
    /\ last.op = "build" /\ IsDefined(xml)
    /\ query.filters
          = Some(Group("and", <<Group("or", <<Group("and", <<>>), Leaf("name", 2)>>),
                                [attribute |-> "name", operator |-> "eq",
                                 value |-> VNum(Num(3))]>>))
    /\ xml[1] = "<fetch><entity name=\"account\"><filter type=\"and\">"
                \o "<filter type=\"or\"><filter type=\"and\"></filter>"
                \o "<condition attribute=\"name\" operator=\"eq\" value=\"2\"/></filter>"
                \o "<condition attribute=\"name\" operator=\"eq\" value=\"3\"/></filter>"
                \o "<link-entity name=\"outer\" from=\"from\" to=\"to\">"
                \o "<link-entity name=\"nested\" from=\"from\" to=\"to\">"
                \o "<link-entity name=\"deep\" from=\"from\" to=\"to\">"
                \o "</link-entity></link-entity></link-entity></entity></fetch>"

\* the link a successful call of op with arguments args on a Join Builder
\* makes of link
C30_LinkAfter(link, op, args) ==
    CASE op = "select" -> JoinBuilder_select(link, args[1]).link
      [] op = "selectAs" -> JoinBuilder_selectAs(link, args[1], args[2]).link
      [] op = "where" -> JoinBuilder_where(link, args[1], args[2], args[3]).link

\* the model a successful call of op with arguments args on the Entity
\* Builder makes of q
C30_After(q, self, op, args) ==
    CASE op = "select" -> select(q, args[1]).query
      [] op = "selectAs" -> selectAs(q, args[1], args[2]).query
      [] op \in AggregateKinds -> addAggregate(q, self, op, args[1], args[2]).query
      [] op = "where" -> where(q, args[1], args[2], args[3]).query
      [] op = "orderBy" -> orderBy(q, args[1], args[2]).query
      [] op = "top" -> top(q, args[1]).query
      [] op = "page" -> page(q, args[1], args[2]).query
      [] op = "distinct" -> distinct(q).query
      [] op = "groupBy" -> q
      [] op = "join" -> join(q, args[1], args[2], args[3], args[4], args[5]).query

\* every step leaves the model produced by the successful calls so far: a
\* call that raises, end() and build() leave the model as it is, a
\* successful call changes it as its method says, on the root or, for a Join
\* Builder, on its link, whether or not build() or end() came before
C30_ModelStep ==
    IF last'.err.thrown \/ last'.op \in {"end", "build"} THEN query' = query
    ELSE IF last'.on = 0
    THEN query' = C30_After(query, entityName, last'.op, last'.args)
    ELSE query' = WithLink(query, last'.on,
                           C30_LinkAfter(query.links[1][last'.on], last'.op,
                                         last'.args))

\* build() returns the rendering of the model of the moment; a call that
\* changes the model after a build() makes the next build() return another
\* string than the earlier one; a successful call on a Join Builder that
\* follows its end() changes the link, hence the document
C30_BuildStep ==
    /\ last'.op = "build" => xml' = Some(build(query))
    /\ (last.op = "build" /\ query' # query) =>
          /\ FetchXMLBuilder_build(query').xml = Some(build(query'))
          /\ build(query') # xml[1]
    /\ (last.op = "end" /\ last'.on = last.on /\ ~last'.err.thrown) =>
          /\ query'.links[1][last.on] # query.links[1][last.on]
          /\ build(query') # build(query)

\* C30: build() always renders the model as it is at the moment of the call:
\* it keeps no snapshot or cache, so a mutation made after an earlier
\* build(), including one made through a Join Builder that is still held
\* after its end() was called, appears in the next build(); the output of
\* build() after any sequence of calls equals the rendering of the model
\* produced by exactly the successful calls of that sequence.
C30_BuildRendersCurrentModel == [][C30_ModelStep /\ C30_BuildStep]_vars

\* end() has been called on the Join Builder of a link that holds an
\* attribute, and a where on that Join Builder can follow
C30_Witness ==
    /\ last.op = "end" /\ last.on = 1
    /\ Len(query.links[1][1].attributes) = 1 /\ Size(query) = 2
    /\ ENABLED JoinWhere(1, "name", "eq", VNum(Num(1)))

====
